---- MODULE Spec2Model ----
(***************************************************************************)
(* A model of the dungeon crawler backend: the procedural dungeon          *)
(* generator (internal/generator/procgen.go), the in-memory game state     *)
(* (internal/game/state.go), the combat resolver (internal/game/combat.go) *)
(* and the tool dispatch layer (internal/mcp/server.go).                   *)
(*                                                                         *)
(* Rooms are identified by their grid coordinate <<x, y>>: the code gives  *)
(* every room a fresh 128-bit random id and keeps one room per coordinate, *)
(* so the coordinate names the room.                                       *)
(***************************************************************************)
EXTENDS Integers, Sequences, FiniteSets, TLC

\* The grid is GridSize x GridSize.  procgen.go:11 sets 5; the model runs the
\* same code on smaller grids, the size `n` being a parameter of the generator:
\* GridSize when the generator runs on its own, GameSize for the dungeons of
\* the games played through the server.
GridSize == 3

GameSize == 2

\* One draw of the random source is a raw value in 0 .. RawMod-1.
RawMod == 12

RawValues == 0 .. (RawMod - 1)

Coords(n) == (0 .. (n - 1)) \X (0 .. (n - 1))

Directions == <<"north", "south", "east", "west">>

(***************************************************************************)
(* math/rand: Intn(n) and Float32() each take one value of the source.     *)
(***************************************************************************)
Intn(raw, n) == raw % n

\* Float32() / Float64() as a percentage, 0 .. 99.
FloatPct(raw) == (raw * 100) \div RawMod

(***************************************************************************)
(* procgen.go: getNeighbor, oppositeDir                                    *)
(***************************************************************************)
getNeighbor(c, dir) ==
    CASE dir = "north" -> <<c[1], c[2] + 1>>
      [] dir = "south" -> <<c[1], c[2] - 1>>
      [] dir = "east"  -> <<c[1] + 1, c[2]>>
      [] dir = "west"  -> <<c[1] - 1, c[2]>>
      [] OTHER         -> c

oppositeDirSame(dir) ==
    CASE dir = "north" -> "south"
      [] dir = "south" -> "north"
      [] dir = "east"  -> "east"
      [] dir = "west"  -> "west"
      [] OTHER         -> ""

oppositeDir(dir) ==
    CASE dir = "north" -> "south"
      [] dir = "south" -> "north"
      [] dir = "east"  -> "west"
      [] dir = "west"  -> "east"
      [] OTHER         -> ""

\* A slip: the bounds check stops one short of the last row and column.
InGridShort(c, n) ==
    /\ c[1] >= 0 /\ c[1] < n - 1
    /\ c[2] >= 0 /\ c[2] < n - 1

InGrid(c, n) ==
    /\ c[1] >= 0 /\ c[1] < n
    /\ c[2] >= 0 /\ c[2] < n

(***************************************************************************)
(* procgen.go: generateGrid.  The rooms in the order the loops append them *)
(* (y outer, x inner).                                                     *)
(***************************************************************************)
NewRoom(x, y, n) ==
    [x |-> x, y |-> y,
     isEntrance |-> (x = 0 /\ y = 0),
     isExit |-> (x = n - 1 /\ y = n - 1)]

NewRoomEdgeExit(x, y, n) ==
    [x |-> x, y |-> y,
     isEntrance |-> (x = 0 /\ y = 0),
     isExit |-> (x = n - 1 \/ y = n - 1)]

generateGridEdgeExit(n) ==
    [k \in 1 .. (n * n) |-> NewRoomEdgeExit((k - 1) % n, (k - 1) \div n, n)]

generateGrid(n) ==
    [k \in 1 .. (n * n) |-> NewRoom((k - 1) % n, (k - 1) \div n, n)]

(***************************************************************************)
(* procgen.go: addFrontierEdges                                            *)
(***************************************************************************)
RECURSIVE addFrontierFrom(_, _, _, _, _)
addFrontierFrom(frontier, c, visited, k, n) ==
    IF k > Len(Directions) THEN frontier
    ELSE LET dir == Directions[k]
             neighbor == getNeighbor(c, dir)
         IN  IF InGrid(neighbor, n) /\ neighbor \notin visited
             THEN addFrontierFrom(
                      Append(frontier, [from |-> c, to |-> neighbor, direction |-> dir]),
                      c, visited, k + 1, n)
             ELSE addFrontierFrom(frontier, c, visited, k + 1, n)

addFrontierEdges(frontier, c, visited, n) == addFrontierFrom(frontier, c, visited, 1, n)

RemoveAt(s, idx) == SubSeq(s, 1, idx - 1) \o SubSeq(s, idx + 1, Len(s))

(***************************************************************************)
(* procgen.go: generateConnections, as the steps of its loops over a       *)
(* generator state g:                                                      *)
(*   seed        the seed NewDungeonGenerator was given                    *)
(*   size        the grid size the generator builds                        *)
(*   phase       where generateConnections stands                          *)
(*   rooms       the rooms generateGrid made                               *)
(*   visited     visited cells of the spanning tree                        *)
(*   frontier    the frontier slice                                        *)
(*   edges       the pairs <<c, dir>> with edges[c][dir] = true            *)
(*   doorCounts  doorCounts[c]                                             *)
(*   possible    the possibleEdges slice                                   *)
(*   k           the index of the running loop                             *)
(*   connections the RoomConnection values returned                        *)
(***************************************************************************)
Start == <<0, 0>>

\* NewDungeonGenerator(seed), for grids of size n.
NewDungeonGenerator(seed, n) ==
    [seed |-> seed, size |-> n, phase |-> "grid", rooms |-> <<>>, visited |-> {}, frontier |-> <<>>,
     edges |-> {}, doorCounts |-> [c \in Coords(n) |-> 0], possible |-> <<>>,
     k |-> 0, connections |-> {}]

\* GenerateDungeon up to the first iteration of the spanning tree loop.
GridStep(g) ==
    [g EXCEPT !.phase = "tree",
              !.rooms = generateGrid(g.size),
              !.visited = {Start},
              !.frontier = addFrontierEdges(<<>>, Start, {Start}, g.size)]

\* One iteration of the spanning tree loop (randomized Prim).
PrimStep(g, raw) ==
    LET idx == Intn(raw, Len(g.frontier)) + 1
        e == g.frontier[idx]
        rest == RemoveAt(g.frontier, idx)
        visited2 == g.visited \cup {e.to}
    IN  IF e.to \in g.visited
        THEN [g EXCEPT !.frontier = rest]
        ELSE [g EXCEPT !.visited = visited2,
                       !.edges = g.edges \cup {<<e.from, e.direction>>,
                                               <<e.to, oppositeDir(e.direction)>>},
                       !.frontier = addFrontierEdges(rest, e.to, visited2, g.size)]

\* len(edges[c])
DoorsOf(edges, c) == Cardinality({p \in edges : p[1] = c})

\* getPossibleEdges: `order` is the order in which `range roomGrid` yields the
\* coordinates.
RECURSIVE possibleFrom(_, _, _, _)
possibleFrom(order, edges, k, n) ==
    IF k > Len(order) THEN <<>>
    ELSE LET c == order[k]
             north == IF InGrid(getNeighbor(c, "north"), n) /\ <<c, "north">> \notin edges
                  THEN <<[from |-> c, to |-> getNeighbor(c, "north"), direction |-> "north"]>>
                  ELSE <<>>
             east == IF InGrid(getNeighbor(c, "east"), n) /\ <<c, "east">> \notin edges
                  THEN <<[from |-> c, to |-> getNeighbor(c, "east"), direction |-> "east"]>>
                  ELSE <<>>
         IN  north \o east \o possibleFrom(order, edges, k + 1, n)

getPossibleEdges(order, edges, n) == possibleFrom(order, edges, 1, n)

\* Step 2 up to the shuffle: doorCounts and possibleEdges.
OrderStep(g, order) ==
    LET possible == getPossibleEdges(order, g.edges, g.size)
    IN  [g EXCEPT !.doorCounts = [c \in Coords(g.size) |-> DoorsOf(g.edges, c)],
                  !.possible = possible,
                  !.phase = IF Len(possible) > 1 THEN "shuffle" ELSE "extras",
                  !.k = IF Len(possible) > 1 THEN Len(possible) - 1 ELSE 1]

Swap(s, a, b) == [s EXCEPT ![a] = s[b], ![b] = s[a]]

\* shuffleEdges: one iteration, i = g.k (0-based index).
ShuffleStep(g, raw) ==
    LET j == Intn(raw, g.k + 1)
    IN  [g EXCEPT !.possible = Swap(g.possible, g.k + 1, j + 1),
                  !.phase = IF g.k > 1 THEN "shuffle" ELSE "extras",
                  !.k = IF g.k > 1 THEN g.k - 1 ELSE 1]

\* Whether this iteration of the extra-door loop draws from the random source.
ExtraDraws(g) ==
    LET e == g.possible[g.k]
        fromDoors == g.doorCounts[e.from]
        toDoors == g.doorCounts[e.to]
    IN  ~(fromDoors >= 3 \/ toDoors >= 3) /\ fromDoors \in {1, 2}

\* One iteration of the extra-door loop.
ExtraStep(g, raw) ==
    LET e == g.possible[g.k]
        fromDoors == g.doorCounts[e.from]
        toDoors == g.doorCounts[e.to]
        shouldAdd == \/ fromDoors = 1 /\ FloatPct(raw) < 75
                     \/ fromDoors = 2 /\ FloatPct(raw) < 25
    IN  IF fromDoors >= 3 \/ toDoors >= 3
        THEN [g EXCEPT !.k = g.k + 1]
        ELSE IF shouldAdd
        THEN [g EXCEPT !.edges = g.edges \cup {<<e.from, e.direction>>,
                                               <<e.to, oppositeDir(e.direction)>>},
                       !.doorCounts = [g.doorCounts EXCEPT ![e.from] = @ + 1,
                                                           ![e.to] = g.doorCounts[e.to] + 1],
                       !.k = g.k + 1]
        ELSE [g EXCEPT !.k = g.k + 1]

\* Step 3: the edges map as RoomConnection values.
ConvertStep(g) ==
    [g EXCEPT !.phase = "done",
              !.connections =
                  {[room |-> p[1], direction |-> p[2], connected |-> getNeighbor(p[1], p[2])] :
                      p \in {q \in g.edges : InGrid(getNeighbor(q[1], q[2]), g.size)}}]

OrdersOf(S) ==
    {f \in [1 .. Cardinality(S) -> S] : \A a, b \in 1 .. Cardinality(S) : f[a] = f[b] => a = b}

\* The coordinates whose place in the iteration order matters to getPossibleEdges.
OrderRelevant(edges, n) ==
    {c \in Coords(n) : Len(getPossibleEdges(<<c>>, edges, n)) > 0}

(***************************************************************************)
(* The generator's random source.  NewDungeonGenerator(seed) makes a       *)
(* math/rand source whose stream is a fixed function of the seed; Stream   *)
(* stands for that function (the library's bits are not modelled, only     *)
(* that equal seeds give equal streams).                                   *)
(***************************************************************************)
Stream(seed, pos) ==
    ((seed + 1) * (pos + 3) + (pos * pos) \div 2 + (seed * seed * pos) \div 3) % RawMod

\* generateRoomName and generateRoomDescription: the number of draws that
\* generateGrid has taken when it has made rooms 1 .. k-1 (the names and the
\* descriptions themselves are text only).
RECURSIVE gridDrawsFrom(_, _, _, _)
gridDrawsFrom(seed, pos, k, n) ==
    IF k > n * n THEN pos
    ELSE LET x == (k - 1) % n
             y == (k - 1) \div n
             afterName == pos + 2
             fixedText == (x = 0 /\ y = 0) \/ (x = n - 1 /\ y = n - 1)
             afterIdx == afterName + 1
             reroll == x + y > 4 /\ FloatPct(Stream(seed, afterIdx)) < 50
             afterDescription ==
                 IF fixedText THEN afterName
                 ELSE IF x + y > 4
                      THEN (IF reroll THEN afterIdx + 2 ELSE afterIdx + 1)
                      ELSE afterIdx
         IN  gridDrawsFrom(seed, afterDescription, k + 1, n)

\* generateConnections with the draws of the seed's stream, from draw `pos` on.
RECURSIVE RunConnections(_, _, _, _)
RunConnections(g, seed, pos, order) ==
    CASE g.phase = "tree" /\ Len(g.frontier) > 0 ->
            RunConnections(PrimStep(g, Stream(seed, pos)), seed, pos + 1, order)
      [] g.phase = "tree" /\ Len(g.frontier) = 0 ->
            RunConnections(OrderStep(g, order), seed, pos, order)
      [] g.phase = "shuffle" ->
            RunConnections(ShuffleStep(g, Stream(seed, pos)), seed, pos + 1, order)
      [] g.phase = "extras" /\ g.k <= Len(g.possible) ->
            RunConnections(ExtraStep(g, Stream(seed, pos)), seed,
                           IF ExtraDraws(g) THEN pos + 1 ELSE pos, order)
      [] OTHER -> [g |-> ConvertStep(g), pos |-> pos]

\* dg.GenerateDungeon(depth), the map iteration of getPossibleEdges yielding
\* the coordinates in `order`: the generator afterwards and the number of
\* draws taken from its source.
GenerateDungeon(dg, order) ==
    RunConnections(GridStep(dg), dg.seed, gridDrawsFrom(dg.seed, 0, 1, dg.size), order)

(***************************************************************************)
(* procgen.go: monsterTemplates, itemTemplates, PopulateRoom               *)
(***************************************************************************)
monsterTemplates ==
    << [name |-> "Rat",      baseHP |-> 5,  baseDamage |-> 2, minDiff |-> 0],
       [name |-> "Goblin",   baseHP |-> 10, baseDamage |-> 4, minDiff |-> 1],
       [name |-> "Skeleton", baseHP |-> 15, baseDamage |-> 5, minDiff |-> 2],
       [name |-> "Orc",      baseHP |-> 25, baseDamage |-> 8, minDiff |-> 3],
       [name |-> "Wraith",   baseHP |-> 20, baseDamage |-> 7, minDiff |-> 4] >>

itemTemplates ==
    << [name |-> "Health Potion",         type |-> "consumable", damage |-> 0, armor |-> 0, healing |-> 10],
       [name |-> "Greater Health Potion", type |-> "consumable", damage |-> 0, armor |-> 0, healing |-> 20],
       [name |-> "Rusty Sword",           type |-> "weapon",     damage |-> 3, armor |-> 0, healing |-> 0],
       [name |-> "Short Sword",           type |-> "weapon",     damage |-> 5, armor |-> 0, healing |-> 0],
       [name |-> "Wooden Shield",         type |-> "armor",      damage |-> 0, armor |-> 2, healing |-> 0],
       [name |-> "Iron Shield",           type |-> "armor",      damage |-> 0, armor |-> 4, healing |-> 0] >>

\* An item's RoomID is nil when it is carried.
NoRoom == <<-1, -1>>

RECURSIVE SelectSeq2(_, _, _)
SelectSeq2(s, d, k) ==
    IF k > Len(s) THEN <<>>
    ELSE (IF s[k].minDiff <= d THEN <<s[k]>> ELSE <<>>) \o SelectSeq2(s, d, k + 1)

\* A slip: every template is eligible at every difficulty.
eligibleMonstersAll(difficulty) == monsterTemplates

\* The templates whose minimum difficulty is at most `difficulty`.
eligibleMonsters(difficulty) == SelectSeq2(monsterTemplates, difficulty, 1)

\* int(float64(base) * (1.0 + float64(difficulty)*0.15))
Scaled(base, difficulty) == (base * (100 + 15 * difficulty)) \div 100

NewMonster(template, room, difficulty) ==
    [name |-> template.name,
     hp |-> Scaled(template.baseHP, difficulty),
     maxHp |-> Scaled(template.baseHP, difficulty),
     damage |-> Scaled(template.baseDamage, difficulty),
     room |-> <<room.x, room.y>>,
     isAlive |-> TRUE]

NewItem(template, room) ==
    [name |-> template.name, type |-> template.type, damage |-> template.damage,
     armor |-> template.armor, healing |-> template.healing,
     room |-> <<room.x, room.y>>, held |-> FALSE, isEquipped |-> FALSE]

\* A slip: the exit room is populated like any other room.
PopulateRoomExitLikeAny(room, difficulty, seed, pos) ==
    IF room.isEntrance
    THEN [monsters |-> <<>>, items |-> <<NewItem(itemTemplates[1], room)>>, pos |-> pos]
    ELSE IF FALSE
    THEN [monsters |-> <<>>, items |-> <<>>, pos |-> pos]
    ELSE
    LET eligible == eligibleMonsters(difficulty)
        spawn == Len(eligible) > 0 /\ FloatPct(Stream(seed, pos)) < 70
        p1 == IF Len(eligible) > 0 THEN pos + 1 ELSE pos
        two == spawn /\ difficulty >= 3 /\ FloatPct(Stream(seed, p1)) < 40
        p2 == IF spawn /\ difficulty >= 3 THEN p1 + 1 ELSE p1
        numMonsters == IF ~spawn THEN 0 ELSE IF two THEN 2 ELSE 1
        monsters ==
            [i \in 1 .. numMonsters |->
                NewMonster(eligible[Intn(Stream(seed, p2 + i - 1), Len(eligible)) + 1],
                           room, difficulty)]
        p3 == p2 + numMonsters
        itemChance == IF 25 + 5 * difficulty > 50 THEN 50 ELSE 25 + 5 * difficulty
        hasItem == FloatPct(Stream(seed, p3)) < itemChance
        p4 == p3 + 1
        items ==
            IF hasItem
            THEN <<NewItem(itemTemplates[Intn(Stream(seed, p4), Len(itemTemplates)) + 1], room)>>
            ELSE <<>>
    IN  [monsters |-> monsters, items |-> items, pos |-> IF hasItem THEN p4 + 1 ELSE p4]

\* PopulateRoom(room, difficulty), the generator's stream standing at draw `pos`:
\* the monsters and items it returns and the stream's position afterwards.
PopulateRoom(room, difficulty, seed, pos) ==
    IF room.isEntrance
    THEN [monsters |-> <<>>, items |-> <<NewItem(itemTemplates[1], room)>>, pos |-> pos]
    ELSE IF room.isExit
    THEN [monsters |-> <<>>, items |-> <<>>, pos |-> pos]
    ELSE
    LET eligible == eligibleMonsters(difficulty)
        spawn == Len(eligible) > 0 /\ FloatPct(Stream(seed, pos)) < 70
        p1 == IF Len(eligible) > 0 THEN pos + 1 ELSE pos
        two == spawn /\ difficulty >= 3 /\ FloatPct(Stream(seed, p1)) < 40
        p2 == IF spawn /\ difficulty >= 3 THEN p1 + 1 ELSE p1
        numMonsters == IF ~spawn THEN 0 ELSE IF two THEN 2 ELSE 1
        monsters ==
            [i \in 1 .. numMonsters |->
                NewMonster(eligible[Intn(Stream(seed, p2 + i - 1), Len(eligible)) + 1],
                           room, difficulty)]
        p3 == p2 + numMonsters
        itemChance == IF 25 + 5 * difficulty > 50 THEN 50 ELSE 25 + 5 * difficulty
        hasItem == FloatPct(Stream(seed, p3)) < itemChance
        p4 == p3 + 1
        items ==
            IF hasItem
            THEN <<NewItem(itemTemplates[Intn(Stream(seed, p4), Len(itemTemplates)) + 1], room)>>
            ELSE <<>>
    IN  [monsters |-> monsters, items |-> items, pos |-> IF hasItem THEN p4 + 1 ELSE p4]


(***************************************************************************)
(* state.go: GameState, NewGameState and the queries                       *)
(*   initialized  Character != nil && Dungeon != nil                       *)
(*   monsters     Monsters, keyed by monster id                            *)
(*   items        Items, keyed by item id (a used consumable is deleted)   *)
(*   visited      the keys of VisitedRooms                                 *)
(* A character's weapon / armor is the equipped item's id, NoItem for nil; *)
(* an item's `held` says CharacterID is set (there is one character).      *)
(***************************************************************************)
NoItem == 0

NoCharacter ==
    [hp |-> 0, maxHp |-> 0, strength |-> 0, dexterity |-> 0, room |-> NoRoom,
     isAlive |-> FALSE, died |-> FALSE, weapon |-> NoItem, armor |-> NoItem]

NewCharacterWounded ==
    [hp |-> 10, maxHp |-> 20, strength |-> 10, dexterity |-> 10, room |-> NoRoom,
     isAlive |-> TRUE, died |-> FALSE, weapon |-> NoItem, armor |-> NoItem]

\* character.go: NewCharacter
NewCharacter ==
    [hp |-> 20, maxHp |-> 20, strength |-> 10, dexterity |-> 10, room |-> NoRoom,
     isAlive |-> TRUE, died |-> FALSE, weapon |-> NoItem, armor |-> NoItem]

NewGameState ==
    [initialized |-> FALSE, character |-> NoCharacter, seed |-> 0,
     rooms |-> <<>>, connections |-> {}, monsters |-> <<>>, items |-> <<>>,
     visited |-> {}, gameOver |-> FALSE, victory |-> FALSE]

IsInitialized(gs) == gs.initialized

\* GetRoomMonsters: the ids of the alive monsters in a room.
GetRoomMonsters(gs, room) ==
    {m \in DOMAIN gs.monsters : gs.monsters[m].room = room /\ gs.monsters[m].isAlive}

HasMonstersInRoomNever(gs, room) == FALSE

HasMonstersInRoom(gs, room) == GetRoomMonsters(gs, room) # {}

\* GetRoomExits(room)[direction]: the set holding the room that exit leads to,
\* empty when there is no exit in that direction.
ExitTargets(gs, room, direction) ==
    {cn.connected : cn \in {c \in gs.connections : c.room = room /\ c.direction = direction}}

\* GetRoomAt(x, y) # nil
HasRoomAt(gs, c) ==
    \E i \in DOMAIN gs.rooms : <<gs.rooms[i].x, gs.rooms[i].y>> = c

\* A slip: a room counts as adjacent to any visited grid neighbour, connected
\* to it or not.
IsRoomAdjacentByGrid(gs, c) ==
    /\ HasRoomAt(gs, c)
    /\ \E adj \in {<<c[1] - 1, c[2]>>, <<c[1] + 1, c[2]>>,
                    <<c[1], c[2] - 1>>, <<c[1], c[2] + 1>>} :
          /\ HasRoomAt(gs, adj)
          /\ adj \in gs.visited

\* IsRoomAdjacent(roomID): one of the four rooms next to it on the grid is
\* visited and has an exit that leads to it.
IsRoomAdjacent(gs, c) ==
    /\ HasRoomAt(gs, c)
    /\ \E adj \in {<<c[1] - 1, c[2]>>, <<c[1] + 1, c[2]>>,
                    <<c[1], c[2] - 1>>, <<c[1], c[2] + 1>>} :
          /\ HasRoomAt(gs, adj)
          /\ adj \in gs.visited
          /\ \E i \in DOMAIN Directions : c \in ExitTargets(gs, adj, Directions[i])

\* gs.Rooms[id].IsExit, false when there is no such room.
IsExitRoom(gs, c) ==
    \E i \in DOMAIN gs.rooms :
        <<gs.rooms[i].x, gs.rooms[i].y>> = c /\ gs.rooms[i].isExit

\* A slip: victory on entering any room in the last row or column.
VictoryCheckEdge(gs, c) ==
    \/ IsExitRoom(gs, c)
    \/ c[1] = GameSize - 1

VictoryCheck(gs, c) == IsExitRoom(gs, c)

\* buildGameStateSnapshot: the map grid is gridSize x gridSize cells.
gridSize == 5

\* buildGameStateSnapshot: the Status of the map cell (x, y).
MapCellStatus(gs, c) ==
    IF ~HasRoomAt(gs, c) THEN "unknown"
    ELSE IF gs.initialized /\ c = gs.character.room THEN "current"
    ELSE IF IsExitRoom(gs, c) /\ c \in gs.visited THEN "exit"
    ELSE IF c \in gs.visited THEN "visited"
    ELSE IF IsRoomAdjacent(gs, c) THEN "adjacent"
    ELSE "unknown"

blockedText == "cannot leave while monsters are present - defeat them first"

\* A slip: the room entered replaces the visited set.
MoveCharacterForgetful(gs, direction) ==
    LET current == gs.character.room
        targets == ExitTargets(gs, current, direction)
        newRoom == CHOOSE t \in targets : TRUE
    IN  IF ~gs.initialized THEN [gs |-> gs, err |-> "no character"]
        ELSE IF ~gs.character.isAlive THEN [gs |-> gs, err |-> "character is dead"]
        ELSE IF HasMonstersInRoom(gs, current)
        THEN [gs |-> gs, err |-> blockedText]
        ELSE IF targets = {}
        THEN [gs |-> gs, err |-> "cannot move - no exit in that direction"]
        ELSE [gs |-> [gs EXCEPT !.character.room = newRoom,
                                !.visited = {newRoom},
                                !.victory = IF VictoryCheck(gs, newRoom) THEN TRUE ELSE @,
                                !.gameOver = IF VictoryCheck(gs, newRoom) THEN TRUE ELSE @],
              err |-> ""]

\* MoveCharacter(direction): the state afterwards and the error ("" for nil).
MoveCharacter(gs, direction) ==
    LET current == gs.character.room
        targets == ExitTargets(gs, current, direction)
        newRoom == CHOOSE t \in targets : TRUE
    IN  IF ~gs.initialized THEN [gs |-> gs, err |-> "no character"]
        ELSE IF ~gs.character.isAlive THEN [gs |-> gs, err |-> "character is dead"]
        ELSE IF HasMonstersInRoom(gs, current)
        THEN [gs |-> gs, err |-> blockedText]
        ELSE IF targets = {}
        THEN [gs |-> gs, err |-> "cannot move - no exit in that direction"]
        ELSE [gs |-> [gs EXCEPT !.character.room = newRoom,
                                !.visited = @ \cup {newRoom},
                                !.victory = IF VictoryCheck(gs, newRoom) THEN TRUE ELSE @,
                                !.gameOver = IF VictoryCheck(gs, newRoom) THEN TRUE ELSE @],
              err |-> ""]

\* A slip: an item is taken from whatever room it lies in.
TakeItemAnywhere(gs, itemID) ==
    IF ~gs.initialized THEN [gs |-> gs, err |-> "no character"]
    ELSE IF itemID \notin DOMAIN gs.items THEN [gs |-> gs, err |-> "item not found"]
    ELSE IF gs.items[itemID].room = NoRoom
    THEN [gs |-> gs, err |-> "item is not in this room"]
    ELSE IF gs.items[itemID].held
    THEN [gs |-> gs, err |-> "item is already being carried"]
    ELSE [gs |-> [gs EXCEPT !.items[itemID].room = NoRoom,
                            !.items[itemID].held = TRUE],
          err |-> ""]

\* A slip: the item taken keeps its room.
TakeItemKeepRoom(gs, itemID) ==
    IF ~gs.initialized THEN [gs |-> gs, err |-> "no character"]
    ELSE IF itemID \notin DOMAIN gs.items THEN [gs |-> gs, err |-> "item not found"]
    ELSE IF gs.items[itemID].room = NoRoom \/ gs.items[itemID].room # gs.character.room
    THEN [gs |-> gs, err |-> "item is not in this room"]
    ELSE IF gs.items[itemID].held
    THEN [gs |-> gs, err |-> "item is already being carried"]
    ELSE [gs |-> [gs EXCEPT !.items[itemID].held = TRUE],
          err |-> ""]

\* TakeItem(itemID)
TakeItem(gs, itemID) ==
    IF ~gs.initialized THEN [gs |-> gs, err |-> "no character"]
    ELSE IF itemID \notin DOMAIN gs.items THEN [gs |-> gs, err |-> "item not found"]
    ELSE IF gs.items[itemID].room = NoRoom \/ gs.items[itemID].room # gs.character.room
    THEN [gs |-> gs, err |-> "item is not in this room"]
    ELSE IF gs.items[itemID].held
    THEN [gs |-> gs, err |-> "item is already being carried"]
    ELSE [gs |-> [gs EXCEPT !.items[itemID].room = NoRoom,
                            !.items[itemID].held = TRUE],
          err |-> ""]

\* A slip: healing without the cap.
HealUncapped(c, amount) == [c EXCEPT !.hp = c.hp + amount]

\* character.go: Heal
Heal(c, amount) ==
    [c EXCEPT !.hp = IF c.hp + amount > c.maxHp THEN c.maxHp ELSE c.hp + amount]

\* A slip: the last hit point is lost without the character dying.
TakeDamageNoDeath(c, damage) ==
    IF c.hp - damage <= 0
    THEN [c EXCEPT !.hp = 0]
    ELSE [c EXCEPT !.hp = c.hp - damage]

\* character.go: TakeDamage
TakeDamage(c, damage) ==
    IF c.hp - damage <= 0
    THEN [c EXCEPT !.hp = 0, !.isAlive = FALSE, !.died = TRUE]
    ELSE [c EXCEPT !.hp = c.hp - damage]

Without(f, key) == [k \in (DOMAIN f) \ {key} |-> f[k]]

\* A slip: the type of the item is not looked at.
UseItemAnyType(gs, itemID) ==
    IF ~gs.initialized THEN [gs |-> gs, err |-> "no character"]
    ELSE IF itemID \notin DOMAIN gs.items THEN [gs |-> gs, err |-> "item not found"]
    ELSE IF ~gs.items[itemID].held
    THEN [gs |-> gs, err |-> "item is not in your inventory"]
    ELSE [gs |-> [gs EXCEPT !.character =
                                IF gs.items[itemID].healing > 0
                                THEN Heal(gs.character, gs.items[itemID].healing)
                                ELSE gs.character,
                            !.items = Without(gs.items, itemID)],
          err |-> ""]

\* UseItem(itemID)
UseItem(gs, itemID) ==
    IF ~gs.initialized THEN [gs |-> gs, err |-> "no character"]
    ELSE IF itemID \notin DOMAIN gs.items THEN [gs |-> gs, err |-> "item not found"]
    ELSE IF ~gs.items[itemID].held
    THEN [gs |-> gs, err |-> "item is not in your inventory"]
    ELSE IF gs.items[itemID].type # "consumable"
    THEN [gs |-> gs, err |-> "cannot use this item - it's not consumable"]
    ELSE [gs |-> [gs EXCEPT !.character =
                                IF gs.items[itemID].healing > 0
                                THEN Heal(gs.character, gs.items[itemID].healing)
                                ELSE gs.character,
                            !.items = Without(gs.items, itemID)],
          err |-> ""]

\* KillMonster(monsterID)
KillMonster(gs, monsterID) ==
    IF monsterID \notin DOMAIN gs.monsters THEN gs
    ELSE [gs EXCEPT !.monsters[monsterID].isAlive = FALSE,
                    !.monsters[monsterID].hp = 0]

\* A slip: the character is killed but the game is not ended.
KillCharacterGameGoesOn(gs) ==
    IF ~gs.initialized THEN gs
    ELSE [gs EXCEPT !.character.isAlive = FALSE,
                    !.character.hp = 0,
                    !.character.died = TRUE]

\* KillCharacter()
KillCharacter(gs) ==
    IF ~gs.initialized THEN gs
    ELSE [gs EXCEPT !.character.isAlive = FALSE,
                    !.character.hp = 0,
                    !.character.died = TRUE,
                    !.gameOver = TRUE,
                    !.victory = FALSE]


(***************************************************************************)
(* combat.go                                                               *)
(***************************************************************************)
D20 == 20

D6 == 6

BaseDefense == 10

CriticalThreshold == 5

MinDamage == 1

NoAttack == [wasHit |-> FALSE, damage |-> 0, wasCritical |-> FALSE, remainingHP |-> 0]

\* A slip: a monster that was just killed still strikes back.
ExecuteCombatTurnStruckBack(player, monster, weaponBonus, armorBonus, d20p, d6p, d20m, d6m) ==
    LET playerDamageBonus == (player.strength \div 2) + weaponBonus
        attackRoll == d20p + (player.dexterity \div 2)
        monsterDefense == BaseDefense
        playerHit == attackRoll >= monsterDefense
        rawDamage == d6p + playerDamageBonus
        damage == IF rawDamage < MinDamage THEN MinDamage ELSE rawDamage
        hpAfter == IF playerHit THEN monster.hp - damage ELSE monster.hp
        monsterDies == playerHit /\ hpAfter <= 0
        monster2 == IF monsterDies THEN [monster EXCEPT !.hp = 0, !.isAlive = FALSE]
                    ELSE [monster EXCEPT !.hp = hpAfter]
        playerAttack ==
            [wasHit |-> playerHit,
             damage |-> IF playerHit THEN damage ELSE 0,
             wasCritical |-> playerHit /\ d6p >= CriticalThreshold,
             remainingHP |-> monster2.hp]
        playerDefense == BaseDefense + (player.dexterity \div 2) + armorBonus
        monsterHit == d20m >= playerDefense
        rawMonsterDamage == monster.damage + (d6m - 3)
        monsterDamage == IF rawMonsterDamage < MinDamage THEN MinDamage ELSE rawMonsterDamage
        player2 == IF monsterHit THEN TakeDamage(player, monsterDamage) ELSE player
        enemyAttack ==
            [wasHit |-> monsterHit,
             damage |-> IF monsterHit THEN monsterDamage ELSE 0,
             wasCritical |-> monsterHit /\ d6m >= CriticalThreshold,
             remainingHP |-> player2.hp]
    IN  IF FALSE
        THEN [player |-> player, monster |-> monster2,
              attackerDamage |-> 0, defenderDamage |-> damage,
              attackerDied |-> FALSE, defenderDied |-> TRUE,
              playerAttack |-> playerAttack, hasEnemyAttack |-> FALSE,
              enemyAttack |-> NoAttack,
              enemyDefeated |-> TRUE, playerDied |-> FALSE, continues |-> FALSE]
        ELSE [player |-> player2, monster |-> monster2,
              attackerDamage |-> IF monsterHit THEN monsterDamage ELSE 0,
              defenderDamage |-> IF playerHit THEN damage ELSE 0,
              attackerDied |-> monsterHit /\ ~player2.isAlive, defenderDied |-> monsterDies,
              playerAttack |-> playerAttack, hasEnemyAttack |-> TRUE,
              enemyAttack |-> enemyAttack,
              enemyDefeated |-> monsterDies, playerDied |-> monsterHit /\ ~player2.isAlive,
              continues |-> ~monsterDies /\ ~(monsterHit /\ ~player2.isAlive)]

\* A slip: the attack roll takes the strength bonus, as CalculateAttack does.
ExecuteCombatTurnByStrength(player, monster, weaponBonus, armorBonus, d20p, d6p, d20m, d6m) ==
    LET playerDamageBonus == (player.strength \div 2) + weaponBonus
        attackRoll == d20p + (player.strength \div 2)
        monsterDefense == BaseDefense
        playerHit == attackRoll >= monsterDefense
        rawDamage == d6p + playerDamageBonus
        damage == IF rawDamage < MinDamage THEN MinDamage ELSE rawDamage
        hpAfter == IF playerHit THEN monster.hp - damage ELSE monster.hp
        monsterDies == playerHit /\ hpAfter <= 0
        monster2 == IF monsterDies THEN [monster EXCEPT !.hp = 0, !.isAlive = FALSE]
                    ELSE [monster EXCEPT !.hp = hpAfter]
        playerAttack ==
            [wasHit |-> playerHit,
             damage |-> IF playerHit THEN damage ELSE 0,
             wasCritical |-> playerHit /\ d6p >= CriticalThreshold,
             remainingHP |-> monster2.hp]
        playerDefense == BaseDefense + (player.dexterity \div 2) + armorBonus
        monsterHit == d20m >= playerDefense
        rawMonsterDamage == monster.damage + (d6m - 3)
        monsterDamage == IF rawMonsterDamage < MinDamage THEN MinDamage ELSE rawMonsterDamage
        player2 == IF monsterHit THEN TakeDamage(player, monsterDamage) ELSE player
        enemyAttack ==
            [wasHit |-> monsterHit,
             damage |-> IF monsterHit THEN monsterDamage ELSE 0,
             wasCritical |-> monsterHit /\ d6m >= CriticalThreshold,
             remainingHP |-> player2.hp]
    IN  IF monsterDies
        THEN [player |-> player, monster |-> monster2,
              attackerDamage |-> 0, defenderDamage |-> damage,
              attackerDied |-> FALSE, defenderDied |-> TRUE,
              playerAttack |-> playerAttack, hasEnemyAttack |-> FALSE,
              enemyAttack |-> NoAttack,
              enemyDefeated |-> TRUE, playerDied |-> FALSE, continues |-> FALSE]
        ELSE [player |-> player2, monster |-> monster2,
              attackerDamage |-> IF monsterHit THEN monsterDamage ELSE 0,
              defenderDamage |-> IF playerHit THEN damage ELSE 0,
              attackerDied |-> monsterHit /\ ~player2.isAlive, defenderDied |-> FALSE,
              playerAttack |-> playerAttack, hasEnemyAttack |-> TRUE,
              enemyAttack |-> enemyAttack,
              enemyDefeated |-> FALSE, playerDied |-> monsterHit /\ ~player2.isAlive,
              continues |-> ~(monsterHit /\ ~player2.isAlive)]

\* ExecuteCombatTurn(player, monster, "attack", weaponBonus, armorBonus), the
\* dice showing d20p, d6p (the player's attack and damage rolls) and d20m, d6m
\* (the monster's); a roll the code does not make is not read.
ExecuteCombatTurn(player, monster, weaponBonus, armorBonus, d20p, d6p, d20m, d6m) ==
    LET playerDamageBonus == (player.strength \div 2) + weaponBonus
        attackRoll == d20p + (player.dexterity \div 2)
        monsterDefense == BaseDefense
        playerHit == attackRoll >= monsterDefense
        rawDamage == d6p + playerDamageBonus
        damage == IF rawDamage < MinDamage THEN MinDamage ELSE rawDamage
        hpAfter == IF playerHit THEN monster.hp - damage ELSE monster.hp
        monsterDies == playerHit /\ hpAfter <= 0
        monster2 == IF monsterDies THEN [monster EXCEPT !.hp = 0, !.isAlive = FALSE]
                    ELSE [monster EXCEPT !.hp = hpAfter]
        playerAttack ==
            [wasHit |-> playerHit,
             damage |-> IF playerHit THEN damage ELSE 0,
             wasCritical |-> playerHit /\ d6p >= CriticalThreshold,
             remainingHP |-> monster2.hp]
        playerDefense == BaseDefense + (player.dexterity \div 2) + armorBonus
        monsterHit == d20m >= playerDefense
        rawMonsterDamage == monster.damage + (d6m - 3)
        monsterDamage == IF rawMonsterDamage < MinDamage THEN MinDamage ELSE rawMonsterDamage
        player2 == IF monsterHit THEN TakeDamage(player, monsterDamage) ELSE player
        enemyAttack ==
            [wasHit |-> monsterHit,
             damage |-> IF monsterHit THEN monsterDamage ELSE 0,
             wasCritical |-> monsterHit /\ d6m >= CriticalThreshold,
             remainingHP |-> player2.hp]
    IN  IF monsterDies
        THEN [player |-> player, monster |-> monster2,
              attackerDamage |-> 0, defenderDamage |-> damage,
              attackerDied |-> FALSE, defenderDied |-> TRUE,
              playerAttack |-> playerAttack, hasEnemyAttack |-> FALSE,
              enemyAttack |-> NoAttack,
              enemyDefeated |-> TRUE, playerDied |-> FALSE, continues |-> FALSE]
        ELSE [player |-> player2, monster |-> monster2,
              attackerDamage |-> IF monsterHit THEN monsterDamage ELSE 0,
              defenderDamage |-> IF playerHit THEN damage ELSE 0,
              attackerDied |-> monsterHit /\ ~player2.isAlive, defenderDied |-> FALSE,
              playerAttack |-> playerAttack, hasEnemyAttack |-> TRUE,
              enemyAttack |-> enemyAttack,
              enemyDefeated |-> FALSE, playerDied |-> monsterHit /\ ~player2.isAlive,
              continues |-> ~(monsterHit /\ ~player2.isAlive)]

\* RollDice(D20) is only compared with a defense value: one face that hits and
\* one that misses stand for the twenty.
D20Faces(bonus, defense) ==
    LET hits == {d \in 1 .. D20 : d + bonus >= defense}
        misses == (1 .. D20) \ hits
    IN  (IF hits = {} THEN {} ELSE {CHOOSE d \in hits : TRUE})
        \cup (IF misses = {} THEN {} ELSE {CHOOSE d \in misses : TRUE})

\* RollDice(D6) enters the damage: the model rolls MaxFaces of the six faces,
\* spread from 1 to D6.
MaxFaces == 2

D6Faces == {1 + ((i * (D6 - 1)) \div (MaxFaces - 1)) : i \in 0 .. (MaxFaces - 1)}

\* combatRandom, the source SetCombatSeed makes: its stream is a fixed function
\* of the seed (the library's bits are not modelled, only that equal seeds
\* give equal streams); `pos` counts the values taken since the seed was set.
CombatStream(seed, pos) ==
    ((seed + 2) * (pos + 5) * 7 + (pos * pos) * 3 + seed * seed) % (D20 * D6)

\* A slip: the new source goes on where the old one stood.
SetCombatSeedKeepsPlace(rng, seed) == [seed |-> seed, pos |-> rng.pos, fresh |-> TRUE]

\* SetCombatSeed(seed)
SetCombatSeed(rng, seed) == [seed |-> seed, pos |-> 0, fresh |-> TRUE]

\* RollDice(sides) on the source standing at rng.pos.
RollDice(rng, pos, sides) == Intn(CombatStream(rng.seed, pos), sides) + 1

\* ExecuteCombatTurn with its dice rolled from the source, in the order of
\* the code: the attack roll, the damage roll after a hit, and for a monster
\* that survived its attack roll and, after a hit, its damage roll.
RolledCombatTurn(rng, player, monster, weaponBonus, armorBonus) ==
    LET d20p == RollDice(rng, rng.pos, D20)
        playerHit == d20p + (player.dexterity \div 2) >= BaseDefense
        d6p == IF playerHit THEN RollDice(rng, rng.pos + 1, D6) ELSE 1
        pos2 == IF playerHit THEN rng.pos + 2 ELSE rng.pos + 1
        attack == ExecuteCombatTurn(player, monster, weaponBonus, armorBonus, d20p, d6p, 1, 1)
        d20m == RollDice(rng, pos2, D20)
        monsterHit == d20m >= BaseDefense + (player.dexterity \div 2) + armorBonus
        d6m == IF monsterHit THEN RollDice(rng, pos2 + 1, D6) ELSE 1
        pos4 == IF monsterHit THEN pos2 + 2 ELSE pos2 + 1
    IN  IF ~attack.hasEnemyAttack
        THEN [result |-> attack, rng |-> [seed |-> rng.seed, pos |-> pos2, fresh |-> FALSE]]
        ELSE [result |-> ExecuteCombatTurn(player, monster, weaponBonus, armorBonus,
                                           d20p, d6p, d20m, d6m),
              rng |-> [seed |-> rng.seed, pos |-> pos4, fresh |-> FALSE]]


(***************************************************************************)
(* The TurnContext of the GameState: the last event, whether a combat      *)
(* result is stored, and the inventory delta (the ids added and used) and  *)
(* the monsters defeated this turn.  isSet says the context exists (it is  *)
(* nil in a new GameState).  resetInCall is history: the context was reset *)
(* during the tool call that is being served, or was the last served.  The *)
(* counters TurnsInRoom and ConsecutiveCombat are left out.                *)
(***************************************************************************)
NoTurnContext ==
    [isSet |-> FALSE, event |-> "", combat |-> FALSE,
     added |-> {}, used |-> {}, defeated |-> {}, resetInCall |-> FALSE]

ResetTurnContext(tc) ==
    [isSet |-> TRUE, event |-> "", combat |-> FALSE,
     added |-> {}, used |-> {}, defeated |-> {}, resetInCall |-> TRUE]

SetLastEvent(tc, event) == [tc EXCEPT !.event = event]

SetLastCombatResult(tc) == [tc EXCEPT !.combat = TRUE]

RecordItemTaken(tc, itemID) == [tc EXCEPT !.added = @ \cup {itemID}]

RecordItemUsed(tc, itemID) == [tc EXCEPT !.used = @ \cup {itemID}]

RecordMonsterDefeated(tc, monsterID) == [tc EXCEPT !.defeated = @ \cup {monsterID}]

\* buildGameStateSnapshot: IsFirstVisit of the current room view, true when
\* the last event of the turn context has Type "movement".
isFirstVisit(tc) == tc.isSet /\ tc.event \in {"movement/room_enter"}

\* The context as a tool call finds it.
Entering(tc) == [tc EXCEPT !.resetInCall = FALSE]

(***************************************************************************)
(* server.go: the tool dispatch layer.  A handler yields the game state    *)
(* afterwards and the reply: the tool, its text, whether CallTool returned *)
(* an error instead of a ToolResult, and whether the ToolResult carries a  *)
(* GameState snapshot.                                                     *)
(***************************************************************************)
errNoGame == "No game in progress. Use 'new_game' to start."

errGameOver == "Game is over. Use 'new_game' to play again."

errVictory == "You have escaped the dungeon! Victory! Use 'new_game' to play again."

errDead == "You are dead. Use 'new_game' to play again."

Reply(tool, text, snapshot) ==
    [tool |-> tool, text |-> text, requestError |-> FALSE, snapshot |-> snapshot]

RequestError(tool, text) ==
    [tool |-> tool, text |-> text, requestError |-> TRUE, snapshot |-> FALSE]

NoReply == Reply("", "", FALSE)

\* A slip: a finished game is not rejected.
requireActiveGameNoGameOver(gs) ==
    IF ~IsInitialized(gs) THEN errNoGame ELSE ""

\* requireActiveGame: the text of the rejection, "" for nil.
requireActiveGame(gs) ==
    IF ~IsInitialized(gs) THEN errNoGame
    ELSE IF gs.gameOver THEN (IF gs.victory THEN errVictory ELSE errDead)
    ELSE ""

\* A slip: the action guard answers like requireActiveGame.
requireActiveGameForActionDistinct(gs) ==
    IF ~IsInitialized(gs) THEN errNoGame
    ELSE IF gs.gameOver THEN (IF gs.victory THEN errVictory ELSE errDead)
    ELSE ""

\* requireActiveGameForAction: the text of the rejection, "" for nil.
requireActiveGameForAction(gs) ==
    IF ~IsInitialized(gs) THEN errNoGame
    ELSE IF gs.gameOver THEN errGameOver
    ELSE ""

\* A slip: the read-only tools answer without a game.
requireInitializedActive(gs) ==
    IF ~IsInitialized(gs) THEN errNoGame
    ELSE IF gs.gameOver THEN errGameOver
    ELSE ""

requireInitializedAlways(gs) == ""

requireInitialized(gs) ==
    IF ~IsInitialized(gs) THEN errNoGame ELSE ""

\* buildGameStateSnapshot() is non-nil exactly when a game is initialized.
HasSnapshot(gs) == IsInitialized(gs)

\* handleNewGame: the rooms populated in order, each PopulateRoom call going
\* on with the generator's stream.
RECURSIVE populateFrom(_, _, _, _, _, _)
populateFrom(rooms, seed, pos, k, monsters, items) ==
    IF k > Len(rooms) THEN [monsters |-> monsters, items |-> items]
    ELSE LET got == PopulateRoom(rooms[k], rooms[k].x + rooms[k].y, seed, pos)
         IN  populateFrom(rooms, seed, got.pos, k + 1,
                          monsters \o got.monsters, items \o got.items)

EntranceOf(rooms) ==
    LET first == CHOOSE i \in DOMAIN rooms :
                    /\ rooms[i].isEntrance
                    /\ \A j \in DOMAIN rooms : rooms[j].isEntrance => i <= j
    IN  <<rooms[first].x, rooms[first].y>>

\* The game state handleNewGame builds with a generator seeded `seed`.
NewGame(seed, order) ==
    LET dungeon == GenerateDungeon(NewDungeonGenerator(seed, GameSize), order)
        rooms == dungeon.g.rooms
        hasEntrance == \E i \in DOMAIN rooms : rooms[i].isEntrance
        start == IF hasEntrance THEN EntranceOf(rooms) ELSE NoRoom
        population == populateFrom(rooms, seed, dungeon.pos, 1, <<>>, <<>>)
    IN  [initialized |-> TRUE,
         character |-> [NewCharacter EXCEPT !.room = start],
         seed |-> seed,
         rooms |-> rooms,
         connections |-> dungeon.g.connections,
         monsters |-> population.monsters,
         items |-> population.items,
         visited |-> IF hasEntrance THEN {start} ELSE {},
         gameOver |-> FALSE,
         victory |-> FALSE]

handleNewGame(seed, order) ==
    [gs |-> NewGame(seed, order), reply |-> Reply("new_game", "=== NEW GAME STARTED ===", TRUE)]

\* A slip: look marks the rooms next to the current one as seen.
handleLookRevealing(gs) ==
    IF requireActiveGame(gs) # ""
    THEN [gs |-> gs, reply |-> Reply("look", requireActiveGame(gs), FALSE)]
    ELSE [gs |-> [gs EXCEPT !.visited =
                      @ \cup {cn.connected : cn \in {c \in gs.connections : c.room = gs.character.room}}],
          reply |-> Reply("look", "=== room ===", HasSnapshot(gs))]

handleLook(gs) ==
    IF requireActiveGame(gs) # ""
    THEN [gs |-> gs, reply |-> Reply("look", requireActiveGame(gs), FALSE)]
    ELSE [gs |-> gs, reply |-> Reply("look", "=== room ===", HasSnapshot(gs))]

\* The first line of the text handleMove answers a victory with.
victoryText == "You step through the exit and escape the dungeon!"

handleMove(gs, direction) ==
    IF requireActiveGame(gs) # ""
    THEN [gs |-> gs, reply |-> Reply("move", requireActiveGame(gs), FALSE)]
    ELSE LET moved == MoveCharacter(gs, direction)
         IN  IF moved.err # ""
             THEN [gs |-> moved.gs, reply |-> Reply("move", moved.err, FALSE)]
             ELSE IF moved.gs.victory
             THEN [gs |-> moved.gs,
                   reply |-> Reply("move", victoryText, HasSnapshot(moved.gs))]
             ELSE [gs |-> moved.gs,
                   reply |-> Reply("move", "You move " \o direction \o "...", HasSnapshot(moved.gs))]

\* The bonus of the item a character's equipment id names (0 for nil or a
\* missing item).
weaponBonusOf(gs) ==
    IF gs.character.weapon # NoItem /\ gs.character.weapon \in DOMAIN gs.items
    THEN gs.items[gs.character.weapon].damage ELSE 0

armorBonusOf(gs) ==
    IF gs.character.armor # NoItem /\ gs.character.armor \in DOMAIN gs.items
    THEN gs.items[gs.character.armor].armor ELSE 0

\* A slip: a dead monster is fought like a living one.
attackRejectionOfLiving(gs, targetID) ==
    IF requireActiveGameForAction(gs) # "" THEN requireActiveGameForAction(gs)
    ELSE IF targetID \notin DOMAIN gs.monsters
    THEN "Monster not found. Use 'look' to see available targets."
    ELSE IF gs.monsters[targetID].room # gs.character.room
    THEN "That monster is not in this room."
    ELSE ""

\* handleAttack before the combat turn: the text it rejects the call with, ""
\* when the turn is fought.
attackRejection(gs, targetID) ==
    IF requireActiveGameForAction(gs) # "" THEN requireActiveGameForAction(gs)
    ELSE IF targetID \notin DOMAIN gs.monsters
    THEN "Monster not found. Use 'look' to see available targets."
    ELSE IF gs.monsters[targetID].room # gs.character.room
    THEN "That monster is not in this room."
    ELSE IF ~gs.monsters[targetID].isAlive
    THEN "That monster is already dead."
    ELSE ""

handleAttack(gs, targetID, d20p, d6p, d20m, d6m) ==
    IF attackRejection(gs, targetID) # ""
    THEN [gs |-> gs, reply |-> Reply("attack", attackRejection(gs, targetID), FALSE)]
    ELSE LET turn == ExecuteCombatTurn(gs.character, gs.monsters[targetID],
                                       weaponBonusOf(gs), armorBonusOf(gs),
                                       d20p, d6p, d20m, d6m)
             fought == [gs EXCEPT !.character = turn.player,
                                  !.monsters[targetID] = turn.monster]
             after == IF turn.attackerDied THEN KillCharacter(fought)
                      ELSE IF turn.defenderDied THEN KillMonster(fought, targetID)
                      ELSE fought
         IN  [gs |-> after, reply |-> Reply("attack", "=== COMBAT ===", HasSnapshot(after))]

handleTake(gs, itemID) ==
    IF requireActiveGameForAction(gs) # ""
    THEN [gs |-> gs, reply |-> Reply("take", requireActiveGameForAction(gs), FALSE)]
    ELSE IF itemID \notin DOMAIN gs.items
    THEN [gs |-> gs, reply |-> Reply("take", "Item not found. Use 'look' to see available items.", FALSE)]
    ELSE LET taken == TakeItem(gs, itemID)
         IN  IF taken.err # ""
             THEN [gs |-> taken.gs, reply |-> Reply("take", taken.err, HasSnapshot(taken.gs))]
             ELSE [gs |-> taken.gs, reply |-> Reply("take", "You pick up the item.", HasSnapshot(taken.gs))]

handleUse(gs, itemID) ==
    IF requireActiveGameForAction(gs) # ""
    THEN [gs |-> gs, reply |-> Reply("use", requireActiveGameForAction(gs), FALSE)]
    ELSE LET used == UseItem(gs, itemID)
         IN  IF used.err # ""
             THEN [gs |-> used.gs, reply |-> Reply("use", used.err, HasSnapshot(used.gs))]
             ELSE [gs |-> used.gs, reply |-> Reply("use", "You use the item.", HasSnapshot(used.gs))]

handleInventory(gs) ==
    IF requireInitialized(gs) # ""
    THEN [gs |-> gs, reply |-> Reply("inventory", requireInitialized(gs), FALSE)]
    ELSE [gs |-> gs, reply |-> Reply("inventory", "=== INVENTORY ===", HasSnapshot(gs))]

handleStats(gs) ==
    IF requireInitialized(gs) # ""
    THEN [gs |-> gs, reply |-> Reply("stats", requireInitialized(gs), FALSE)]
    ELSE [gs |-> gs, reply |-> Reply("stats", "=== CHARACTER STATS ===", HasSnapshot(gs))]

handleMap(gs) ==
    IF requireInitialized(gs) # ""
    THEN [gs |-> gs, reply |-> Reply("map", requireInitialized(gs), FALSE)]
    ELSE [gs |-> gs, reply |-> Reply("map", "=== MAP ===", HasSnapshot(gs))]

\* A slip: an item is equipped wherever it lies.
handleEquipFromFloor(gs, itemID) ==
    IF requireActiveGameForAction(gs) # ""
    THEN [gs |-> gs, reply |-> Reply("equip", requireActiveGameForAction(gs), FALSE)]
    ELSE IF itemID \notin DOMAIN gs.items
    THEN [gs |-> gs, reply |-> Reply("equip", "Item not found. Use 'inventory' to see your items.", FALSE)]
    ELSE IF FALSE
    THEN [gs |-> gs, reply |-> Reply("equip", "That item is not in your inventory. Pick it up first with 'take'.", FALSE)]
    ELSE IF gs.items[itemID].type = "weapon"
    THEN LET old == gs.character.weapon
             unequipped == IF old # NoItem /\ old \in DOMAIN gs.items
                           THEN [gs.items EXCEPT ![old].isEquipped = FALSE] ELSE gs.items
             after == [gs EXCEPT !.character.weapon = itemID,
                                 !.items = [unequipped EXCEPT ![itemID].isEquipped = TRUE]]
         IN  [gs |-> after, reply |-> Reply("equip", "You equip the weapon.", HasSnapshot(after))]
    ELSE IF gs.items[itemID].type = "armor"
    THEN LET old == gs.character.armor
             unequipped == IF old # NoItem /\ old \in DOMAIN gs.items
                           THEN [gs.items EXCEPT ![old].isEquipped = FALSE] ELSE gs.items
             after == [gs EXCEPT !.character.armor = itemID,
                                 !.items = [unequipped EXCEPT ![itemID].isEquipped = TRUE]]
         IN  [gs |-> after, reply |-> Reply("equip", "You equip the armor.", HasSnapshot(after))]
    ELSE [gs |-> gs, reply |-> Reply("equip", "Cannot equip - it's not a weapon or armor.", HasSnapshot(gs))]

\* A slip: the item equipped before keeps its flag.
handleEquipKeepsOld(gs, itemID) ==
    IF requireActiveGameForAction(gs) # ""
    THEN [gs |-> gs, reply |-> Reply("equip", requireActiveGameForAction(gs), FALSE)]
    ELSE IF itemID \notin DOMAIN gs.items
    THEN [gs |-> gs, reply |-> Reply("equip", "Item not found. Use 'inventory' to see your items.", FALSE)]
    ELSE IF ~gs.items[itemID].held
    THEN [gs |-> gs, reply |-> Reply("equip", "That item is not in your inventory. Pick it up first with 'take'.", FALSE)]
    ELSE IF gs.items[itemID].type = "weapon"
    THEN LET old == gs.character.weapon
             unequipped == gs.items
             after == [gs EXCEPT !.character.weapon = itemID,
                                 !.items = [unequipped EXCEPT ![itemID].isEquipped = TRUE]]
         IN  [gs |-> after, reply |-> Reply("equip", "You equip the weapon.", HasSnapshot(after))]
    ELSE IF gs.items[itemID].type = "armor"
    THEN LET old == gs.character.armor
             unequipped == gs.items
             after == [gs EXCEPT !.character.armor = itemID,
                                 !.items = [unequipped EXCEPT ![itemID].isEquipped = TRUE]]
         IN  [gs |-> after, reply |-> Reply("equip", "You equip the armor.", HasSnapshot(after))]
    ELSE [gs |-> gs, reply |-> Reply("equip", "Cannot equip - it's not a weapon or armor.", HasSnapshot(gs))]

handleEquip(gs, itemID) ==
    IF requireActiveGameForAction(gs) # ""
    THEN [gs |-> gs, reply |-> Reply("equip", requireActiveGameForAction(gs), FALSE)]
    ELSE IF itemID \notin DOMAIN gs.items
    THEN [gs |-> gs, reply |-> Reply("equip", "Item not found. Use 'inventory' to see your items.", FALSE)]
    ELSE IF ~gs.items[itemID].held
    THEN [gs |-> gs, reply |-> Reply("equip", "That item is not in your inventory. Pick it up first with 'take'.", FALSE)]
    ELSE IF gs.items[itemID].type = "weapon"
    THEN LET old == gs.character.weapon
             unequipped == IF old # NoItem /\ old \in DOMAIN gs.items
                           THEN [gs.items EXCEPT ![old].isEquipped = FALSE] ELSE gs.items
             after == [gs EXCEPT !.character.weapon = itemID,
                                 !.items = [unequipped EXCEPT ![itemID].isEquipped = TRUE]]
         IN  [gs |-> after, reply |-> Reply("equip", "You equip the weapon.", HasSnapshot(after))]
    ELSE IF gs.items[itemID].type = "armor"
    THEN LET old == gs.character.armor
             unequipped == IF old # NoItem /\ old \in DOMAIN gs.items
                           THEN [gs.items EXCEPT ![old].isEquipped = FALSE] ELSE gs.items
             after == [gs EXCEPT !.character.armor = itemID,
                                 !.items = [unequipped EXCEPT ![itemID].isEquipped = TRUE]]
         IN  [gs |-> after, reply |-> Reply("equip", "You equip the armor.", HasSnapshot(after))]
    ELSE [gs |-> gs, reply |-> Reply("equip", "Cannot equip - it's not a weapon or armor.", HasSnapshot(gs))]

(***************************************************************************)
(* What each handler does to the TurnContext, given the game state and the *)
(* context it is called with.  beginTurn, beginCombatTurn and              *)
(* beginMovementTurn all reset the context; they differ in the counters.   *)
(***************************************************************************)
beginTurn(tc) == ResetTurnContext(tc)

beginCombatTurn(tc) == ResetTurnContext(tc)

beginMovementTurn(tc) == ResetTurnContext(tc)

newGameTurn(tc) == SetLastEvent(ResetTurnContext(tc), "interaction/game_start")

lookTurn(gs, tc) ==
    IF requireActiveGame(gs) # "" THEN tc
    ELSE SetLastEvent(beginTurn(tc), "interaction/look")

moveTurn(gs, tc, direction) ==
    IF requireActiveGame(gs) # "" THEN tc
    ELSE LET moved == MoveCharacter(gs, direction)
         IN  IF moved.err # "" THEN beginMovementTurn(tc)
             ELSE IF moved.gs.victory
             THEN SetLastEvent(beginMovementTurn(tc), "victory/dungeon_escaped")
             ELSE SetLastEvent(beginMovementTurn(tc), "movement/room_enter")

attackTurn(gs, tc, targetID, d20p, d6p, d20m, d6m) ==
    IF attackRejection(gs, targetID) # "" THEN tc
    ELSE LET fought == ExecuteCombatTurn(gs.character, gs.monsters[targetID],
                                         weaponBonusOf(gs), armorBonusOf(gs),
                                         d20p, d6p, d20m, d6m)
             stored == SetLastCombatResult(beginCombatTurn(tc))
         IN  IF fought.attackerDied THEN SetLastEvent(stored, "death/player_died")
             ELSE IF fought.defenderDied
             THEN SetLastEvent(RecordMonsterDefeated(stored, targetID), "combat/enemy_defeated")
             ELSE IF fought.playerAttack.wasHit THEN SetLastEvent(stored, "combat/attack_hit")
             ELSE SetLastEvent(stored, "combat/attack_miss")

takeTurn(gs, tc, itemID) ==
    IF requireActiveGameForAction(gs) # "" THEN tc
    ELSE IF itemID \notin DOMAIN gs.items THEN tc
    ELSE IF TakeItem(gs, itemID).err # "" THEN beginTurn(tc)
    ELSE SetLastEvent(RecordItemTaken(beginTurn(tc), itemID), "discovery/item_found")

\* handleUse records the item as used before UseItem looks at it.
useTurn(gs, tc, itemID) ==
    IF requireActiveGameForAction(gs) # "" THEN tc
    ELSE IF UseItem(gs, itemID).err # "" THEN RecordItemUsed(beginTurn(tc), itemID)
    ELSE SetLastEvent(RecordItemUsed(beginTurn(tc), itemID), "interaction/item_used")

\* handleEquip, handleInventory, handleStats and handleMap never touch it.
equipTurn(gs, tc, itemID) == tc


(***************************************************************************)
(* The state: the generator run on its own (gen), the server's GameState   *)
(* (state), the reply to the last tool call (reply), ExecuteCombatTurn      *)
(* called on its own (combat), the GameState's TurnContext (turn) and the  *)
(* name and argument of the last tool call (request), and the tool calls   *)
(* the HTTP endpoint is serving at the moment, one per request (calls).    *)
(***************************************************************************)
VARIABLES gen, state, reply, combat, turn, request, calls

vars == <<gen, state, reply, combat, turn, request, calls>>

\* No request is being served.
NoCalls == <<>>

\* No tool has been called.
NoRequest == [tool |-> "", isString |-> FALSE, value |-> ""]

\* No combat turn has been asked for.
NoCombat == [phase |-> "none"]

(***************************************************************************)
(* GenerateDungeon run on its own, step by step: the random source may     *)
(* yield any value at every draw (whatever the seed) and the map iteration *)
(* may take any order.                                                     *)
(***************************************************************************)
InitGen ==
    /\ gen = NewDungeonGenerator(0, GridSize)
    /\ state = NewGameState
    /\ reply = NoReply
    /\ combat = NoCombat
    /\ turn = NoTurnContext
    /\ request = NoRequest
    /\ calls = NoCalls

GenGrid ==
    /\ gen.phase = "grid"
    /\ gen' = GridStep(gen)
    /\ UNCHANGED <<state, reply, combat, turn, request, calls>>

GenPrim ==
    /\ gen.phase = "tree"
    /\ Len(gen.frontier) > 0
    /\ \E raw \in RawValues : gen' = PrimStep(gen, raw)
    /\ UNCHANGED <<state, reply, combat, turn, request, calls>>

GenOrder ==
    /\ gen.phase = "tree"
    /\ Len(gen.frontier) = 0
    /\ \E order \in OrdersOf(OrderRelevant(gen.edges, gen.size)) : gen' = OrderStep(gen, order)
    /\ UNCHANGED <<state, reply, combat, turn, request, calls>>

GenShuffle ==
    /\ gen.phase = "shuffle"
    /\ \E raw \in RawValues : gen' = ShuffleStep(gen, raw)
    /\ UNCHANGED <<state, reply, combat, turn, request, calls>>

GenExtra ==
    /\ gen.phase = "extras"
    /\ gen.k <= Len(gen.possible)
    /\ \E raw \in RawValues : gen' = ExtraStep(gen, raw)
    /\ UNCHANGED <<state, reply, combat, turn, request, calls>>

GenConvert ==
    /\ gen.phase = "extras"
    /\ gen.k > Len(gen.possible)
    /\ gen' = ConvertStep(gen)
    /\ UNCHANGED <<state, reply, combat, turn, request, calls>>

NextGen ==
    \/ GenGrid
    \/ GenPrim
    \/ GenOrder
    \/ GenShuffle
    \/ GenExtra
    \/ GenConvert

SpecGen == InitGen /\ [][NextGen]_vars

(***************************************************************************)
(* GenerateDungeon run on its own with a seeded source: the draws are the  *)
(* seed's stream, the map iteration order is the runtime's.                *)
(***************************************************************************)
MaxGenSeed == 59

\* The orders in which `range roomGrid` may yield the coordinates: the model
\* takes the row-major order started at any of the first MaxMapStart+1 places.
MaxMapStart == 2

RowMajor(n) == [k \in 1 .. (n * n) |-> <<(k - 1) % n, (k - 1) \div n>>]

MapOrder(r, n) == [k \in 1 .. (n * n) |-> RowMajor(n)[((k - 1 + r) % (n * n)) + 1]]

InitSeeded ==
    /\ gen \in {NewDungeonGenerator(seed, GridSize) : seed \in 0 .. MaxGenSeed}
    /\ state = NewGameState
    /\ reply = NoReply
    /\ combat = NoCombat
    /\ turn = NoTurnContext
    /\ request = NoRequest
    /\ calls = NoCalls

Generate ==
    /\ gen.phase = "grid"
    /\ \E r \in 0 .. MaxMapStart : gen' = GenerateDungeon(gen, MapOrder(r, gen.size)).g
    /\ UNCHANGED <<state, reply, combat, turn, request, calls>>

NextSeeded == Generate

SpecSeeded == InitSeeded /\ [][NextSeeded]_vars

(***************************************************************************)
(* The server: NewServer(), then one CallTool after another.               *)
(***************************************************************************)
\* handleNewGame seeds the generator with the clock: seeds 0 .. MaxSeed.
MaxSeed == 3

Seeds == 0 .. MaxSeed

MapOrders == {MapOrder(r, GameSize) : r \in 0 .. MaxMapStart}

\* The outcomes of handleNewGame.
NewGames == {handleNewGame(seed, order) : seed \in Seeds, order \in MapOrders}

\* A tool argument: a string (here its value) or anything else.
DirectionArgs ==
    {[isString |-> TRUE, value |-> d] : d \in {"north", "south", "east", "west", "up"}}
        \cup {[isString |-> FALSE, value |-> ""]}

IdArgs(ids) ==
    {[isString |-> TRUE, value |-> i] : i \in ids \cup {NoItem}}
        \cup {[isString |-> FALSE, value |-> NoItem]}

\* Item ids are 1, 2, ... in the order the items were made: at most one per room.
ItemIds == 1 .. (GameSize * GameSize)

Init ==
    /\ gen = NewDungeonGenerator(0, GridSize)
    /\ state = NewGameState
    /\ reply = NoReply
    /\ combat = NoCombat
    /\ turn = NoTurnContext
    /\ request = NoRequest
    /\ calls = NoCalls

CallNewGame ==
    /\ \E out \in NewGames :
          /\ state' = out.gs
          /\ reply' = out.reply
    /\ UNCHANGED <<gen, combat, turn, request, calls>>

CallLook ==
    /\ LET out == handleLook(state)
       IN  /\ state' = out.gs
           /\ reply' = out.reply
    /\ UNCHANGED <<gen, combat, turn, request, calls>>

\* CallTool("move"): the argument must be a string, then handleMove.
MoveStep(arg) ==
    IF ~arg.isString
    THEN /\ state' = state
         /\ reply' = RequestError("move", "invalid direction")
    ELSE LET out == handleMove(state, arg.value)
         IN  /\ state' = out.gs
             /\ reply' = out.reply

CallMove ==
    /\ \E arg \in DirectionArgs : MoveStep(arg)
    /\ UNCHANGED <<gen, combat, turn, request, calls>>

\* The faces the attack dice may show: none is rolled when the call is refused.
AttackDice(gs, arg) ==
    IF ~arg.isString \/ attackRejection(gs, arg.value) # ""
    THEN {<<1, 1, 1, 1>>}
    ELSE D20Faces(gs.character.dexterity \div 2, BaseDefense)
            \X D6Faces
            \X D20Faces(0, BaseDefense + (gs.character.dexterity \div 2) + armorBonusOf(gs))
            \X D6Faces

\* CallTool("attack"): the argument must be a string, then handleAttack.
AttackStep(arg, dice) ==
    IF ~arg.isString
    THEN /\ state' = state
         /\ reply' = RequestError("attack", "invalid target_id")
    ELSE LET out == handleAttack(state, arg.value, dice[1], dice[2], dice[3], dice[4])
         IN  /\ state' = out.gs
             /\ reply' = out.reply

CallAttack ==
    /\ \E arg \in IdArgs(DOMAIN state.monsters) :
          \E dice \in AttackDice(state, arg) : AttackStep(arg, dice)
    /\ UNCHANGED <<gen, combat, turn, request, calls>>

\* CallTool("take"): the argument must be a string, then handleTake.
TakeStep(arg) ==
    IF ~arg.isString
    THEN /\ state' = state
         /\ reply' = RequestError("take", "invalid item_id")
    ELSE LET out == handleTake(state, arg.value)
         IN  /\ state' = out.gs
             /\ reply' = out.reply

CallTake ==
    /\ \E arg \in IdArgs(ItemIds) : TakeStep(arg)
    /\ UNCHANGED <<gen, combat, turn, request, calls>>

\* CallTool("use"): the argument must be a string, then handleUse.
UseStep(arg) ==
    IF ~arg.isString
    THEN /\ state' = state
         /\ reply' = RequestError("use", "invalid item_id")
    ELSE LET out == handleUse(state, arg.value)
         IN  /\ state' = out.gs
             /\ reply' = out.reply

CallUse ==
    /\ \E arg \in IdArgs(ItemIds) : UseStep(arg)
    /\ UNCHANGED <<gen, combat, turn, request, calls>>

\* CallTool("equip"): the argument must be a string, then handleEquip.
EquipStep(arg) ==
    IF ~arg.isString
    THEN /\ state' = state
         /\ reply' = RequestError("equip", "invalid item_id")
    ELSE LET out == handleEquip(state, arg.value)
         IN  /\ state' = out.gs
             /\ reply' = out.reply

CallEquip ==
    /\ \E arg \in IdArgs(ItemIds) : EquipStep(arg)
    /\ UNCHANGED <<gen, combat, turn, request, calls>>

CallInventory ==
    /\ LET out == handleInventory(state)
       IN  /\ state' = out.gs
           /\ reply' = out.reply
    /\ UNCHANGED <<gen, combat, turn, request, calls>>

CallStats ==
    /\ LET out == handleStats(state)
       IN  /\ state' = out.gs
           /\ reply' = out.reply
    /\ UNCHANGED <<gen, combat, turn, request, calls>>

CallMap ==
    /\ LET out == handleMap(state)
       IN  /\ state' = out.gs
           /\ reply' = out.reply
    /\ UNCHANGED <<gen, combat, turn, request, calls>>

\* CallTool with a name that is no tool.
CallUnknown ==
    /\ state' = state
    /\ reply' = RequestError("unknown", "unknown tool")
    /\ UNCHANGED <<gen, combat, turn, request, calls>>

Next ==
    \/ CallNewGame
    \/ CallLook
    \/ CallMove
    \/ CallAttack
    \/ CallTake
    \/ CallUse
    \/ CallEquip
    \/ CallInventory
    \/ CallStats
    \/ CallMap
    \/ CallUnknown

Spec == Init /\ [][Next]_vars

(***************************************************************************)
(* PopulateRoom called on its own, the way handleNewGame calls it: for any *)
(* room of a PopSize x PopSize grid, with the room's distance from the     *)
(* entrance as difficulty, the random stream of any seed standing at any   *)
(* of its first positions.                                                 *)
(***************************************************************************)
PopSize == 4

MaxPopPos == 5

InitPopulate ==
    /\ \E k \in 1 .. (PopSize * PopSize), seed \in 0 .. MaxGenSeed, pos \in 0 .. MaxPopPos :
          gen = [phase |-> "populate", room |-> generateGrid(PopSize)[k],
                 seed |-> seed, pos |-> pos, monsters |-> <<>>, items |-> <<>>]
    /\ state = NewGameState
    /\ reply = NoReply
    /\ combat = NoCombat
    /\ turn = NoTurnContext
    /\ request = NoRequest
    /\ calls = NoCalls

Populate ==
    /\ gen.phase = "populate"
    /\ LET got == PopulateRoom(gen.room, gen.room.x + gen.room.y, gen.seed, gen.pos)
       IN  gen' = [gen EXCEPT !.phase = "populated",
                              !.monsters = got.monsters,
                              !.items = got.items]
    /\ UNCHANGED <<state, reply, combat, turn, request, calls>>

NextPopulate == Populate

SpecPopulate == InitPopulate /\ [][NextPopulate]_vars

(***************************************************************************)
(* The server of Spec with new_game called at the seed ArmorySeed, whose   *)
(* dungeon holds two pieces of armor.                                      *)
(***************************************************************************)
ArmorySeed == 7

ArmoryGames == {handleNewGame(ArmorySeed, order) : order \in MapOrders}

CallArmoryGame ==
    /\ \E out \in ArmoryGames :
          /\ state' = out.gs
          /\ reply' = out.reply
    /\ UNCHANGED <<gen, combat, turn, request, calls>>

NextArmory ==
    \/ CallArmoryGame
    \/ CallLook
    \/ CallMove
    \/ CallAttack
    \/ CallTake
    \/ CallUse
    \/ CallEquip
    \/ CallInventory
    \/ CallStats
    \/ CallMap
    \/ CallUnknown

SpecArmory == Init /\ [][NextArmory]_vars

(***************************************************************************)
(* ExecuteCombatTurn called on its own: any of the characters and monsters *)
(* below, any bonus, and the four dice showing any faces.                  *)
(***************************************************************************)
\* Strength and dexterity go from NewCharacter's value up to MaxStatSpread more.
MaxStatSpread == 2

\* Weapon and armor bonuses are 0 .. MaxBonus.
MaxBonus == 1

\* The monsters are made from the first MaxTemplates monster templates.
MaxTemplates == 3

CombatPlayers ==
    {[NewCharacter EXCEPT !.strength = str, !.dexterity = dex, !.hp = hp] :
        str \in NewCharacter.strength .. (NewCharacter.strength + MaxStatSpread),
        dex \in NewCharacter.dexterity .. (NewCharacter.dexterity + MaxStatSpread),
        hp \in {NewCharacter.maxHp \div 4, NewCharacter.maxHp}}

CombatMonsters ==
    {NewMonster(monsterTemplates[t], [x |-> 0, y |-> 0], 0) : t \in 1 .. MaxTemplates}

InitCombat ==
    /\ gen = NewDungeonGenerator(0, GridSize)
    /\ state = NewGameState
    /\ reply = NoReply
    /\ turn = NoTurnContext
    /\ request = NoRequest
    /\ calls = NoCalls
    /\ \E p \in CombatPlayers, m \in CombatMonsters,
          wb \in 0 .. MaxBonus, ab \in 0 .. MaxBonus :
          combat = [phase |-> "ready", player |-> p, monster |-> m,
                    weaponBonus |-> wb, armorBonus |-> ab]

\* One call of ExecuteCombatTurn, RollDice giving d20p, d6p, d20m and d6m.
Fight ==
    /\ combat.phase = "ready"
    /\ \E d20p \in 1 .. D20, d6p \in 1 .. D6, d20m \in 1 .. D20, d6m \in 1 .. D6 :
          combat' = [phase |-> "fought", player |-> combat.player, monster |-> combat.monster,
                     weaponBonus |-> combat.weaponBonus, armorBonus |-> combat.armorBonus,
                     d20p |-> d20p, d6p |-> d6p, d20m |-> d20m, d6m |-> d6m,
                     result |-> ExecuteCombatTurn(combat.player, combat.monster,
                                                  combat.weaponBonus, combat.armorBonus,
                                                  d20p, d6p, d20m, d6m)]
    /\ UNCHANGED <<gen, state, reply, turn, request, calls>>

NextCombat == Fight

SpecCombat == InitCombat /\ [][NextCombat]_vars

(***************************************************************************)
(* The combat source: init() seeds it with the clock, SetCombatSeed seeds  *)
(* it again, every ExecuteCombatTurn rolls its dice from it.  combat.calls *)
(* is the history of the calls made: the seed in force, whether the seed   *)
(* was set just before the call, the arguments and the result.             *)
(***************************************************************************)
\* Combat seeds are 0 .. MaxCombatSeed.
MaxCombatSeed == 2

\* At most MaxCalls calls of ExecuteCombatTurn are followed.
MaxCalls == 2

InitDice ==
    /\ gen = NewDungeonGenerator(0, GridSize)
    /\ state = NewGameState
    /\ reply = NoReply
    /\ turn = NoTurnContext
    /\ request = NoRequest
    /\ calls = NoCalls
    /\ \E seed \in 0 .. MaxCombatSeed :
          combat = [phase |-> "dice",
                    rng |-> [seed |-> seed, pos |-> 0, fresh |-> FALSE],
                    calls |-> <<>>]

CallSetCombatSeed ==
    /\ Len(combat.calls) < MaxCalls
    /\ \E seed \in 0 .. MaxCombatSeed :
          combat' = [combat EXCEPT !.rng = SetCombatSeed(combat.rng, seed)]
    /\ UNCHANGED <<gen, state, reply, turn, request, calls>>

CallExecuteCombatTurn ==
    /\ Len(combat.calls) < MaxCalls
    /\ \E p \in CombatPlayers, m \in CombatMonsters,
          wb \in 0 .. MaxBonus, ab \in 0 .. MaxBonus :
          LET out == RolledCombatTurn(combat.rng, p, m, wb, ab)
          IN  combat' = [combat EXCEPT
                            !.rng = out.rng,
                            !.calls = Append(@, [seed |-> combat.rng.seed,
                                                 fresh |-> combat.rng.fresh,
                                                 player |-> p, monster |-> m,
                                                 weaponBonus |-> wb, armorBonus |-> ab,
                                                 result |-> out.result])]
    /\ UNCHANGED <<gen, state, reply, turn, request, calls>>

NextDice ==
    \/ CallSetCombatSeed
    \/ CallExecuteCombatTurn

SpecDice == InitDice /\ [][NextDice]_vars

(***************************************************************************)
(* The server with its TurnContext: the tool calls of Spec, each also      *)
(* doing what its handler does to the TurnContext and leaving its name and *)
(* argument in request.  new_game is called at the one seed TurnSeed.      *)
(***************************************************************************)
TurnSeed == 0

TurnGames == {handleNewGame(TurnSeed, order) : order \in MapOrders}

NoArgument == [isString |-> FALSE, value |-> ""]

\* What is kept of a call: the tool, whether its argument was a string, and
\* for move the direction asked for.
Request(tool, arg) ==
    [tool |-> tool, isString |-> arg.isString,
     value |-> IF tool = "move" THEN arg.value ELSE ""]

InitTurn ==
    /\ gen = NewDungeonGenerator(0, GridSize)
    /\ state = NewGameState
    /\ reply = NoReply
    /\ combat = NoCombat
    /\ turn = NoTurnContext
    /\ request = NoRequest
    /\ calls = NoCalls

ServeNewGame ==
    /\ \E out \in TurnGames :
          /\ state' = out.gs
          /\ reply' = out.reply
    /\ turn' = newGameTurn(Entering(turn))
    /\ request' = Request("new_game", NoArgument)
    /\ UNCHANGED <<gen, combat, calls>>

ServeLook ==
    /\ LET out == handleLook(state)
       IN  /\ state' = out.gs
           /\ reply' = out.reply
    /\ turn' = lookTurn(state, Entering(turn))
    /\ request' = Request("look", NoArgument)
    /\ UNCHANGED <<gen, combat, calls>>

ServeMove ==
    /\ \E arg \in DirectionArgs :
          /\ MoveStep(arg)
          /\ turn' = IF arg.isString THEN moveTurn(state, Entering(turn), arg.value)
                      ELSE Entering(turn)
          /\ request' = Request("move", arg)
    /\ UNCHANGED <<gen, combat, calls>>

ServeAttack ==
    /\ \E arg \in IdArgs(DOMAIN state.monsters) :
          \E dice \in AttackDice(state, arg) :
              /\ AttackStep(arg, dice)
              /\ turn' = IF arg.isString
                          THEN attackTurn(state, Entering(turn), arg.value,
                                          dice[1], dice[2], dice[3], dice[4])
                          ELSE Entering(turn)
              /\ request' = Request("attack", arg)
    /\ UNCHANGED <<gen, combat, calls>>

ServeTake ==
    /\ \E arg \in IdArgs(ItemIds) :
          /\ TakeStep(arg)
          /\ turn' = IF arg.isString THEN takeTurn(state, Entering(turn), arg.value)
                      ELSE Entering(turn)
          /\ request' = Request("take", arg)
    /\ UNCHANGED <<gen, combat, calls>>

ServeUse ==
    /\ \E arg \in IdArgs(ItemIds) :
          /\ UseStep(arg)
          /\ turn' = IF arg.isString THEN useTurn(state, Entering(turn), arg.value)
                      ELSE Entering(turn)
          /\ request' = Request("use", arg)
    /\ UNCHANGED <<gen, combat, calls>>

ServeEquip ==
    /\ \E arg \in IdArgs(ItemIds) :
          /\ EquipStep(arg)
          /\ turn' = IF arg.isString THEN equipTurn(state, Entering(turn), arg.value)
                      ELSE Entering(turn)
          /\ request' = Request("equip", arg)
    /\ UNCHANGED <<gen, combat, calls>>

ServeInventory ==
    /\ LET out == handleInventory(state)
       IN  /\ state' = out.gs
           /\ reply' = out.reply
    /\ turn' = Entering(turn)
    /\ request' = Request("inventory", NoArgument)
    /\ UNCHANGED <<gen, combat, calls>>

ServeStats ==
    /\ LET out == handleStats(state)
       IN  /\ state' = out.gs
           /\ reply' = out.reply
    /\ turn' = Entering(turn)
    /\ request' = Request("stats", NoArgument)
    /\ UNCHANGED <<gen, combat, calls>>

ServeMap ==
    /\ LET out == handleMap(state)
       IN  /\ state' = out.gs
           /\ reply' = out.reply
    /\ turn' = Entering(turn)
    /\ request' = Request("map", NoArgument)
    /\ UNCHANGED <<gen, combat, calls>>

ServeUnknown ==
    /\ state' = state
    /\ reply' = RequestError("unknown", "unknown tool")
    /\ turn' = Entering(turn)
    /\ request' = Request("unknown", NoArgument)
    /\ UNCHANGED <<gen, combat, calls>>

NextTurn ==
    \/ ServeNewGame
    \/ ServeLook
    \/ ServeMove
    \/ ServeAttack
    \/ ServeTake
    \/ ServeUse
    \/ ServeEquip
    \/ ServeInventory
    \/ ServeStats
    \/ ServeMap
    \/ ServeUnknown

SpecTurn == InitTurn /\ [][NextTurn]_vars

(***************************************************************************)
(* The HTTP call endpoint under concurrent requests.  net/http serves each *)
(* request on a goroutine of its own and handleCallTool calls CallTool     *)
(* with no lock, so the statements of two handlers interleave.  Two        *)
(* requests, each a use or an attack, are served against a game that was   *)
(* played up to the fight with the monster: the potion was taken, the      *)
(* character stepped into the monster's room and was hit some times.       *)
(***************************************************************************)
Threads == {1, 2}

\* The character is hit up to MaxWounds times before the requests arrive.
MaxWounds == 3

\* The game after new_game and the take of the potion at the entrance.
Carrying == handleTake(NewGame(TurnSeed, MapOrder(0, GameSize)), 1).gs

\* ... and after the step into the room of the monster.
AtMonster ==
    {g \in {handleMove(Carrying, Directions[i]).gs : i \in DOMAIN Directions} :
        GetRoomMonsters(g, g.character.room) # {}}

\* ... and after k attacks that missed and were answered with a hit.
RECURSIVE Wounded(_, _)
Wounded(g, k) ==
    IF k = 0 THEN g
    ELSE handleAttack(Wounded(g, k - 1), 1, 1, 1, D20, D6).gs

RaceGames == {Wounded(g, k) : g \in AtMonster, k \in 0 .. MaxWounds}

\* A request nobody has sent yet.
IdleCall ==
    [pc |-> "idle", tool |-> "", id |-> NoItem, text |-> "",
     healing |-> 0, healed |-> 0, armorBonus |-> 0, weaponBonus |-> 0,
     defenderDied |-> FALSE, attackerDied |-> FALSE, hitByDead |-> FALSE]

InitRace ==
    /\ gen = NewDungeonGenerator(0, GridSize)
    /\ state \in RaceGames
    /\ reply = NoReply
    /\ combat = NoCombat
    /\ turn = newGameTurn(NoTurnContext)
    /\ request = NoRequest
    /\ calls = [p \in Threads |-> IdleCall]

\* The call of thread p answers text and returns.
Answer(p, text) == [calls EXCEPT ![p].pc = "done", ![p].text = text]

\* handleCallTool: a request is decoded and CallTool dispatches it.
Arrive ==
    /\ \E p \in Threads, tool \in {"use", "attack"}, id \in {1, 2} :
          /\ calls[p].pc = "idle"
          /\ calls' = [calls EXCEPT ![p].pc = "guard", ![p].tool = tool, ![p].id = id]
    /\ UNCHANGED <<gen, state, reply, combat, turn, request>>

\* handleUse and handleAttack: requireActiveGameForAction.
Guard ==
    /\ \E p \in Threads :
          /\ calls[p].pc = "guard"
          /\ calls' = IF requireActiveGameForAction(state) # ""
                      THEN Answer(p, requireActiveGameForAction(state))
                      ELSE [calls EXCEPT ![p].pc = "lookup"]
    /\ UNCHANGED <<gen, state, reply, combat, turn, request>>

\* handleUse: beginTurn, RecordItemUsed, and UseItem up to its checks.
UseLookup ==
    /\ \E p \in Threads :
          /\ calls[p].pc = "lookup"
          /\ calls[p].tool = "use"
          /\ turn' = RecordItemUsed(beginTurn(turn), calls[p].id)
          /\ calls' = IF UseItem(state, calls[p].id).err # ""
                      THEN Answer(p, UseItem(state, calls[p].id).err)
                      ELSE [calls EXCEPT ![p].pc = "heal",
                                         ![p].healing = state.items[calls[p].id].healing]
    /\ UNCHANGED <<gen, state, reply, combat, request>>

\* UseItem: gs.Character.Heal(item.Healing), the item read through the
\* pointer the lookup returned.
UseHeal ==
    /\ \E p \in Threads :
          /\ calls[p].pc = "heal"
          /\ LET healedCharacter == IF calls[p].healing > 0
                                    THEN Heal(state.character, calls[p].healing)
                                    ELSE state.character
             IN  /\ state' = [state EXCEPT !.character = healedCharacter]
                 /\ calls' = [calls EXCEPT ![p].pc = "delete",
                                           ![p].healed = healedCharacter.hp - state.character.hp]
    /\ UNCHANGED <<gen, reply, combat, turn, request>>

\* UseItem: delete(gs.Items, itemID); handleUse: SetLastEvent and the result.
UseDelete ==
    /\ \E p \in Threads :
          /\ calls[p].pc = "delete"
          /\ state' = [state EXCEPT !.items = Without(@, calls[p].id)]
          /\ turn' = SetLastEvent(turn, "interaction/item_used")
          /\ calls' = Answer(p, "You use the item.")
    /\ UNCHANGED <<gen, reply, combat, request>>

\* handleAttack: the three checks of the target, beginCombatTurn and the
\* equipment bonuses.
AttackLookup ==
    /\ \E p \in Threads :
          /\ calls[p].pc = "lookup"
          /\ calls[p].tool = "attack"
          /\ IF attackRejection(state, calls[p].id) # ""
             THEN /\ calls' = Answer(p, attackRejection(state, calls[p].id))
                  /\ turn' = turn
             ELSE /\ calls' = [calls EXCEPT ![p].pc = "strike",
                                            ![p].weaponBonus = weaponBonusOf(state),
                                            ![p].armorBonus = armorBonusOf(state)]
                  /\ turn' = beginCombatTurn(turn)
    /\ UNCHANGED <<gen, state, reply, combat, request>>

\* ExecuteCombatTurn: the player's attack on the monster.
AttackStrike ==
    /\ \E p \in Threads :
          /\ calls[p].pc = "strike"
          /\ \E d20p \in D20Faces(state.character.dexterity \div 2, BaseDefense),
                d6p \in D6Faces :
                LET monster == state.monsters[calls[p].id]
                    playerHit == d20p + (state.character.dexterity \div 2) >= BaseDefense
                    rawDamage == d6p + (state.character.strength \div 2) + calls[p].weaponBonus
                    damage == IF rawDamage < MinDamage THEN MinDamage ELSE rawDamage
                    dies == playerHit /\ monster.hp - damage <= 0
                    monster2 == IF dies THEN [monster EXCEPT !.hp = 0, !.isAlive = FALSE]
                                ELSE IF playerHit THEN [monster EXCEPT !.hp = @ - damage]
                                ELSE monster
                IN  /\ state' = [state EXCEPT !.monsters[calls[p].id] = monster2]
                    /\ calls' = [calls EXCEPT ![p].pc = IF dies THEN "finish" ELSE "counter",
                                              ![p].defenderDied = dies]
    /\ UNCHANGED <<gen, reply, combat, turn, request>>

\* ExecuteCombatTurn: the monster's counter-attack on the player.
AttackCounter ==
    /\ \E p \in Threads :
          /\ calls[p].pc = "counter"
          /\ \E d20m \in D20Faces(0, BaseDefense + (state.character.dexterity \div 2)
                                       + calls[p].armorBonus),
                d6m \in D6Faces :
                LET monster == state.monsters[calls[p].id]
                    monsterHit == d20m >= BaseDefense + (state.character.dexterity \div 2)
                                            + calls[p].armorBonus
                    rawDamage == monster.damage + (d6m - 3)
                    damage == IF rawDamage < MinDamage THEN MinDamage ELSE rawDamage
                    player2 == IF monsterHit THEN TakeDamage(state.character, damage)
                               ELSE state.character
                IN  /\ state' = [state EXCEPT !.character = player2]
                    /\ calls' = [calls EXCEPT ![p].pc = "finish",
                                              ![p].attackerDied = monsterHit /\ ~player2.isAlive,
                                              ![p].hitByDead = monsterHit /\ ~monster.isAlive]
    /\ UNCHANGED <<gen, reply, combat, turn, request>>

\* handleAttack after the turn: SetLastCombatResult, KillCharacter or
\* KillMonster, the event and the result.
AttackFinish ==
    /\ \E p \in Threads :
          /\ calls[p].pc = "finish"
          /\ state' = IF calls[p].attackerDied THEN KillCharacter(state)
                      ELSE IF calls[p].defenderDied THEN KillMonster(state, calls[p].id)
                      ELSE state
          /\ turn' = IF calls[p].attackerDied
                     THEN SetLastEvent(SetLastCombatResult(turn), "death/player_died")
                     ELSE IF calls[p].defenderDied
                     THEN SetLastEvent(RecordMonsterDefeated(SetLastCombatResult(turn), calls[p].id),
                                       "combat/enemy_defeated")
                     ELSE SetLastEvent(SetLastCombatResult(turn), "combat/attack")
          /\ calls' = Answer(p, "=== COMBAT ===")
    /\ UNCHANGED <<gen, reply, combat, request>>

NextRace ==
    \/ Arrive
    \/ Guard
    \/ UseLookup
    \/ UseHeal
    \/ UseDelete
    \/ AttackLookup
    \/ AttackStrike
    \/ AttackCounter
    \/ AttackFinish

SpecRace == InitRace /\ [][NextRace]_vars

(***************************************************************************)
(* Properties of the generated dungeon                                     *)
(***************************************************************************)
RECURSIVE ReachFrom(_, _)
ReachFrom(S, conns) ==
    LET nxt == S \cup {cn.connected : cn \in {c \in conns : c.room \in S}}
    IN  IF nxt = S THEN S ELSE ReachFrom(nxt, conns)

RoomCoords(rooms) == {<<rooms[i].x, rooms[i].y>> : i \in DOMAIN rooms}

EntranceCoords(rooms) == {<<rooms[i].x, rooms[i].y>> : i \in {j \in DOMAIN rooms : rooms[j].isEntrance}}

Doors(conns, c) == Cardinality({cn \in conns : cn.room = c})

\* C5: in every generated dungeon every room is reachable from the entrance
\* room by following connections.
C5_Connected ==
    gen.phase = "done" =>
        ReachFrom(EntranceCoords(gen.rooms), gen.connections) = RoomCoords(gen.rooms)

\* A finished dungeon whose connection graph has a cycle (an extra door was added).
C5_Witness ==
    /\ gen.phase = "done"
    /\ Cardinality(gen.connections) > 2 * (GridSize * GridSize - 1)
    /\ Cardinality(RoomCoords(gen.rooms)) = GridSize * GridSize

\* C6: in every generated dungeon every room has between 1 and 3 doors
\* (outgoing connections) inclusive.
C6_DoorsOneToThree ==
    gen.phase = "done" =>
        \A c \in RoomCoords(gen.rooms) :
            Doors(gen.connections, c) >= 1 /\ Doors(gen.connections, c) <= 3

\* C7: whenever room A has a connection to room B in direction D, room B has a
\* connection to room A in the opposite direction, and B is A's grid neighbour
\* in direction D.
C7_Reciprocal ==
    gen.phase = "done" =>
        \A cn \in gen.connections :
            /\ \E back \in gen.connections :
                  /\ back.room = cn.connected
                  /\ back.connected = cn.room
                  /\ <<cn.direction, back.direction>> \in
                        {<<"north", "south">>, <<"south", "north">>,
                         <<"east", "west">>, <<"west", "east">>}
            /\ cn.connected[1] - cn.room[1] =
                  (IF cn.direction = "east" THEN 1 ELSE IF cn.direction = "west" THEN -1 ELSE 0)
            /\ cn.connected[2] - cn.room[2] =
                  (IF cn.direction = "north" THEN 1 ELSE IF cn.direction = "south" THEN -1 ELSE 0)
            /\ cn.connected \in RoomCoords(gen.rooms)

\* A finished dungeon holding a connection in each of the four directions.
C7_Witness ==
    /\ gen.phase = "done"
    /\ {cn.direction : cn \in gen.connections} = {"north", "south", "east", "west"}

\* C8: a generated dungeon has exactly one entrance room, at (0,0), exactly one
\* exit room, at (GridSize-1, GridSize-1), and exactly one room per coordinate.
C8_EntranceExit ==
    gen.phase # "grid" =>
        /\ \A c \in Coords(GridSize) :
              Cardinality({i \in DOMAIN gen.rooms : <<gen.rooms[i].x, gen.rooms[i].y>> = c}) = 1
        /\ \A i \in DOMAIN gen.rooms : <<gen.rooms[i].x, gen.rooms[i].y>> \in Coords(GridSize)
        /\ \A i \in DOMAIN gen.rooms :
              /\ gen.rooms[i].isEntrance <=> (gen.rooms[i].x = 0 /\ gen.rooms[i].y = 0)
              /\ gen.rooms[i].isExit <=>
                    (gen.rooms[i].x = GridSize - 1 /\ gen.rooms[i].y = GridSize - 1)
        /\ Cardinality({i \in DOMAIN gen.rooms : gen.rooms[i].isEntrance}) = 1
        /\ Cardinality({i \in DOMAIN gen.rooms : gen.rooms[i].isExit}) = 1

\* The grid has been generated and the generator has gone on to the connections.
C8_Witness ==
    /\ gen.phase = "tree"
    /\ Len(gen.rooms) = GridSize * GridSize
    /\ gen.visited # {Start}

\* C9: two runs of GenerateDungeon with the same seed give the same set of
\* connections between grid coordinates: whatever order the map iteration
\* took, the connections are those of the run that iterated in row-major order.
C9_SameSeedSameConnections ==
    gen.phase = "done" =>
        gen.connections =
            GenerateDungeon(NewDungeonGenerator(gen.seed, gen.size),
                            RowMajor(gen.size)).g.connections

(***************************************************************************)
(* Properties of the tool calls                                            *)
(***************************************************************************)
Tools ==
    {"new_game", "look", "move", "attack", "take", "use", "inventory", "stats", "map", "equip"}

ActionTools == {"move", "attack", "take", "use", "equip"}

DirectionSet == {Directions[i] : i \in DOMAIN Directions}

\* The reply of a move that relocated the character.
MoveSucceeded(r) ==
    /\ r.tool = "move"
    /\ ~r.requestError
    /\ r.text \in {victoryText} \cup {"You move " \o d \o "..." : d \in DirectionSet}

\* C1: once GameOver is true, no tool call other than new_game changes the
\* game state: GameOver and Victory, the character, every monster, every item
\* and the visited set stay as they are.
C1_TerminalStatePermanent ==
    [][(state.gameOver /\ reply'.tool # "new_game") => state' = state]_vars

\* A move was called after a victory and the game still stands won.
C1_Witness ==
    /\ state.gameOver
    /\ state.victory
    /\ reply.tool = "move"
    /\ reply.text = errVictory

C3_MovementBlocked ==
    [][(/\ state.initialized
        /\ GetRoomMonsters(state, state.character.room) # {}
        /\ reply'.tool = "move") =>
          /\ ~MoveSucceeded(reply')
          /\ (~state.gameOver /\ ~reply'.requestError => reply'.text = blockedText)
          /\ state'.character.room = state.character.room
          /\ state'.visited = state.visited
          /\ state'.gameOver = state.gameOver
          /\ state'.victory = state.victory]_vars

\* A move was refused in a room with an alive monster.
C3_Witness ==
    /\ state.initialized
    /\ ~state.gameOver
    /\ GetRoomMonsters(state, state.character.room) # {}
    /\ reply.tool = "move"
    /\ reply.text = blockedText

\* C4: a successful move in direction D puts the character in the room the
\* connection (current room, D) leads to, marks that room visited, and sets
\* Victory and GameOver exactly when that room is the exit room; nothing else
\* of the game changes.
C4_SuccessfulMove ==
    [][MoveSucceeded(reply') =>
          \E d \in DirectionSet :
              LET target == state'.character.room
                  atExit == \E i \in DOMAIN state.rooms :
                                /\ <<state.rooms[i].x, state.rooms[i].y>> = target
                                /\ state.rooms[i].isExit
              IN  /\ reply'.text \in {victoryText, "You move " \o d \o "..."}
                  /\ [room |-> state.character.room, direction |-> d, connected |-> target]
                         \in state.connections
                  /\ state'.visited = state.visited \cup {target}
                  /\ ~state.gameOver
                  /\ state'.victory = atExit
                  /\ state'.gameOver = atExit
                  /\ (reply'.text = victoryText) = atExit
                  /\ state' = [state EXCEPT !.character.room = target,
                                            !.visited = state'.visited,
                                            !.victory = state'.victory,
                                            !.gameOver = state'.gameOver]]_vars

\* The character has just stepped into the exit room.
C4_Witness ==
    /\ reply.tool = "move"
    /\ reply.text = victoryText
    /\ state.victory
    /\ state.gameOver
    /\ state.character.room = <<GameSize - 1, GameSize - 1>>
    /\ state.character.room \in state.visited

\* C10 as written: with no game started every tool other than new_game answers
\* the no-game message and leaves the state uninitialized.
C10_EveryToolAnswersNoGame ==
    [][(~state.initialized /\ reply'.tool \in Tools \ {"new_game"}) =>
          /\ reply'.text = errNoGame
          /\ ~state'.initialized]_vars

\* C10: with no game started, a call of a tool other than new_game answers the
\* no-game message, or is refused as a bad request when its string argument is
\* missing or not a string; either way the state stays as NewServer made it.
\* Only new_game starts a game.
C10_NoGame ==
    [][~state.initialized =>
          IF reply'.tool = "new_game"
          THEN state'.initialized
          ELSE /\ state' = NewGameState
               /\ reply'.tool \in Tools =>
                    \/ ~reply'.requestError /\ ~reply'.snapshot /\ reply'.text = errNoGame
                    \/ /\ reply'.requestError
                       /\ reply'.tool \in ActionTools
                       /\ reply'.text \in {"invalid direction", "invalid target_id",
                                           "invalid item_id"}]_vars

\* Before any game, the map tool answered the no-game message.
C10_Witness ==
    /\ ~state.initialized
    /\ state = NewGameState
    /\ reply.tool = "map"
    /\ reply.text = errNoGame

(***************************************************************************)
(* The game state after new_game, the read-only tools                      *)
(***************************************************************************)
\* The room flagged as the entrance, as a set of coordinates.
EntranceRooms == EntranceCoords(state.rooms)

\* C11: whatever the state new_game was called in, the state it leaves has
\* GameOver and Victory false, a living character with hp 20 of 20, strength
\* 10, dexterity 10 and nothing equipped, standing in the entrance room, the
\* visited set exactly {entrance}, every item on a room floor (none carried,
\* none equipped) and every monster alive at full hp.
C11_NewGameFresh ==
    reply.tool = "new_game" =>
        /\ state.initialized
        /\ ~state.gameOver
        /\ ~state.victory
        /\ state.character.isAlive
        /\ ~state.character.died
        /\ state.character.hp = 20
        /\ state.character.maxHp = 20
        /\ state.character.strength = 10
        /\ state.character.dexterity = 10
        /\ state.character.weapon = NoItem
        /\ state.character.armor = NoItem
        /\ EntranceRooms = {state.character.room}
        /\ state.visited = {state.character.room}
        /\ \A i \in DOMAIN state.items :
              /\ ~state.items[i].held
              /\ ~state.items[i].isEquipped
              /\ state.items[i].room \in RoomCoords(state.rooms)
        /\ \A m \in DOMAIN state.monsters :
              /\ state.monsters[m].isAlive
              /\ state.monsters[m].hp = state.monsters[m].maxHp
              /\ state.monsters[m].hp > 0

\* new_game has answered, and the game it made has both items and monsters.
C11_Witness ==
    /\ reply.tool = "new_game"
    /\ reply.snapshot
    /\ state.character.hp = 20
    /\ state.visited = EntranceRooms
    /\ DOMAIN state.items # {}
    /\ DOMAIN state.monsters # {}

ReadOnlyTools == {"inventory", "stats", "map"}

\* The first line of the text a read-only tool answers with when it succeeds.
ReadOnlyText(tool) ==
    IF tool = "inventory" THEN "=== INVENTORY ==="
    ELSE IF tool = "stats" THEN "=== CHARACTER STATS ==="
    ELSE "=== MAP ==="

\* C12: in every state in which a game has been initialized, after victory
\* and after death included, inventory, stats and map are not rejected: they
\* answer with their own text and a snapshot, not with an error.
C12_ReadOnlyToolsSucceed ==
    (state.initialized /\ reply.tool \in ReadOnlyTools) =>
        /\ ~reply.requestError
        /\ reply.snapshot
        /\ reply.text = ReadOnlyText(reply.tool)

\* stats has answered after the character died.
C12_Witness ==
    /\ state.gameOver
    /\ ~state.victory
    /\ ~state.character.isAlive
    /\ reply.tool = "stats"
    /\ reply.text = "=== CHARACTER STATS ==="

ObservingTools == {"look", "inventory", "stats", "map"}

\* C13: look, inventory, stats and map (and the snapshot they return) never
\* change the character, any monster, any item, the visited set, GameOver or
\* Victory, whatever the state they are called in.
C13_ObservingToolsChangeNothing ==
    [][reply'.tool \in ObservingTools =>
          /\ state'.character = state.character
          /\ state'.monsters = state.monsters
          /\ state'.items = state.items
          /\ state'.visited = state.visited
          /\ state'.gameOver = state.gameOver
          /\ state'.victory = state.victory]_vars

\* look has described the room of a wounded character who carries an item
\* and has not seen every room yet.
C13_Witness ==
    /\ reply.tool = "look"
    /\ reply.snapshot
    /\ state.character.hp < state.character.maxHp
    /\ \E i \in DOMAIN state.items : state.items[i].held
    /\ state.visited # RoomCoords(state.rooms)

(***************************************************************************)
(* Items: where they are, take and use                                     *)
(***************************************************************************)
\* C14: in every reachable state every item in the item mapping has exactly
\* one of roomId and characterId set, never both and never neither; an item
\* with neither is one that was consumed, and it is no longer in the mapping.
C14_ItemInOnePlace ==
    \A i \in DOMAIN state.items :
        /\ (state.items[i].room # NoRoom) # state.items[i].held
        /\ state.items[i].room # NoRoom => state.items[i].room \in RoomCoords(state.rooms)

\* One item is carried, another lies on a floor, and a third was consumed.
C14_Witness ==
    /\ \E i \in DOMAIN state.items : state.items[i].held /\ state.items[i].room = NoRoom
    /\ \E i \in DOMAIN state.items : ~state.items[i].held /\ state.items[i].room # NoRoom
    /\ 1 \notin DOMAIN state.items

\* The reply of a take that picked the item up.
TakeSucceeded(r) == r.tool = "take" /\ ~r.requestError /\ r.text = "You pick up the item."

UseSucceeded(r) == r.tool = "use" /\ ~r.requestError /\ r.text = "You use the item."

MinOf(a, b) == IF a < b THEN a ELSE b

\* A take, use or equip call naming itemID that is refused and changes nothing.
RefusedEverywhere(gs, itemID) ==
    /\ handleUse(gs, itemID).gs = gs
    /\ ~UseSucceeded(handleUse(gs, itemID).reply)
    /\ handleTake(gs, itemID).gs = gs
    /\ ~TakeSucceeded(handleTake(gs, itemID).reply)
    /\ handleEquip(gs, itemID).gs = gs
    /\ handleEquip(gs, itemID).reply.text \notin {"You equip the weapon.", "You equip the armor."}

\* C16: a successful use of a carried consumable with healing h by a
\* character with hp p sets hp to min(maxHp, p + h), which is neither below p
\* nor above maxHp, and removes the item from the item mapping; an id that is
\* not in the mapping stays out of it for the rest of the game, and a use,
\* take or equip naming it is refused.  (Item ids are fresh random strings
\* in every game; here they are indices that the next game uses again.)
C16_UseHeals ==
    [][/\ UseSucceeded(reply') =>
             \E i \in DOMAIN state.items :
                 /\ state.items[i].held
                 /\ state.items[i].type = "consumable"
                 /\ state.items[i].healing > 0
                 /\ state'.character.hp =
                        MinOf(state.character.maxHp, state.character.hp + state.items[i].healing)
                 /\ state'.character.hp >= state.character.hp
                 /\ state'.character.hp <= state.character.maxHp
                 /\ state' = [state EXCEPT !.character.hp = state'.character.hp,
                                           !.items = Without(state.items, i)]
                 /\ i \notin DOMAIN state'.items
       /\ \A i \in ItemIds \ DOMAIN state.items :
             /\ RefusedEverywhere(state, i)
             /\ reply'.tool # "new_game" => i \notin DOMAIN state'.items]_vars

\* A potion was used by a wounded character and did not heal all the wounds.
C16_Witness ==
    /\ UseSucceeded(reply)
    /\ state.character.hp < state.character.maxHp
    /\ \E i \in ItemIds : i \notin DOMAIN state.items

\* An item id use cannot succeed with: unknown, on a floor, or not consumable.
Unusable(gs, itemID) ==
    \/ itemID \notin DOMAIN gs.items
    \/ ~gs.items[itemID].held
    \/ gs.items[itemID].type # "consumable"

\* C17: a use naming an item that is not in the inventory (an unknown id, or
\* an item still on a room floor) or that is not a consumable fails; a use
\* that fails leaves hp as it was and the item in the mapping with its
\* location and its equip flag (and here the whole game state) unchanged.
C17_UseFailure ==
    [][/\ (reply'.tool = "use" /\ ~UseSucceeded(reply')) =>
             /\ state'.character.hp = state.character.hp
             /\ state'.items = state.items
             /\ state' = state
       /\ \A i \in ItemIds \cup {NoItem} :
             Unusable(state, i) =>
                 /\ ~UseSucceeded(handleUse(state, i).reply)
                 /\ handleUse(state, i).gs = state]_vars

\* The use of a carried, equipped weapon was refused; a potion lies on a floor.
C17_Witness ==
    /\ reply.tool = "use"
    /\ reply.text = "cannot use this item - it's not consumable"
    /\ \E i \in DOMAIN state.items : state.items[i].held /\ state.items[i].isEquipped
    /\ \E i \in DOMAIN state.items : ~state.items[i].held /\ state.items[i].type = "consumable"

(***************************************************************************)
(* Hit points, life and death                                              *)
(***************************************************************************)
\* C18: in every state reachable through the tools in which there is a
\* character, 0 <= hp <= maxHp, and isAlive holds exactly when hp > 0.
C18_HpWithinBounds ==
    state.initialized =>
        /\ 0 <= state.character.hp
        /\ state.character.hp <= state.character.maxHp
        /\ state.character.isAlive <=> state.character.hp > 0

\* An attack was fought and the character is dead with no hit point left.
C18_Witness ==
    /\ state.initialized
    /\ reply.tool = "attack"
    /\ ~state.character.isAlive
    /\ state.character.hp = 0

\* An attack on the monster is refused whatever the dice, the state unchanged.
AttackRefused(gs, m) ==
    /\ attackRejection(gs, m) # ""
    /\ \A d20p \in {1, D20}, d6p \in D6Faces, d20m \in {1, D20}, d6m \in D6Faces :
          LET out == handleAttack(gs, m, d20p, d6p, d20m, d6m)
          IN  out.gs = gs /\ out.reply.text # "=== COMBAT ==="

\* No move of the character is refused because of monsters.
MovementFree(gs) ==
    \A d \in DirectionSet : handleMove(gs, d).reply.text # blockedText

\* C19: death is permanent within a game.  A monster that is not alive has
\* hp 0, and it stays as it is under every tool call but new_game; it cannot
\* be attacked, and a room whose monsters are all dead does not block the
\* character.  A character that is not alive has hp 0 and a time of death,
\* and stays so until new_game; a living character has no time of death.
C19_DeathIsPermanent ==
    /\ [](/\ \A m \in DOMAIN state.monsters :
                ~state.monsters[m].isAlive =>
                    /\ state.monsters[m].hp = 0
                    /\ AttackRefused(state, m)
                    /\ m \notin GetRoomMonsters(state, state.monsters[m].room)
          /\ (/\ state.initialized
              /\ ~state.gameOver
              /\ \A m \in DOMAIN state.monsters :
                    state.monsters[m].room = state.character.room => ~state.monsters[m].isAlive)
                => MovementFree(state)
          /\ (state.initialized /\ ~state.character.isAlive) =>
                (state.character.hp = 0 /\ state.character.died)
          /\ (state.initialized /\ state.character.isAlive) => ~state.character.died)
    /\ [][reply'.tool # "new_game" =>
              /\ \A m \in DOMAIN state.monsters :
                    ~state.monsters[m].isAlive =>
                        /\ m \in DOMAIN state'.monsters
                        /\ state'.monsters[m] = state.monsters[m]
              /\ (state.initialized /\ ~state.character.isAlive) =>
                    state'.character = state.character]_vars

\* The attack on a dead monster in the character's room was refused.
C19_Witness ==
    /\ reply.tool = "attack"
    /\ reply.text = "That monster is already dead."
    /\ \E m \in DOMAIN state.monsters :
          /\ ~state.monsters[m].isAlive
          /\ state.monsters[m].hp = 0
          /\ state.monsters[m].room = state.character.room

\* hp, isAlive, GameOver and Victory of a state, with every monster's hp and
\* isAlive: what a second kill must leave as the first one made it.
LifeOf(gs) ==
    [hp |-> gs.character.hp, isAlive |-> gs.character.isAlive,
     gameOver |-> gs.gameOver, victory |-> gs.victory,
     monsters |-> [m \in DOMAIN gs.monsters |->
                     <<gs.monsters[m].hp, gs.monsters[m].isAlive>>]]

\* C20: when an attack ends with the character's hp brought to 0 by the
\* counter-attack, the resulting state has isAlive false, a time of death,
\* GameOver true and Victory false; KillCharacter and KillMonster applied a
\* second time leave hp, isAlive, GameOver and Victory as after the first.
C20_DeathByCounterAttack ==
    [][/\ (/\ reply'.tool = "attack"
           /\ state.initialized
           /\ state.character.hp > 0
           /\ state'.character.hp = 0)
             => /\ ~state'.character.isAlive
                /\ state'.character.died
                /\ state'.gameOver
                /\ ~state'.victory
       /\ LifeOf(KillCharacter(KillCharacter(state))) = LifeOf(KillCharacter(state))
       /\ \A m \in DOMAIN state.monsters \cup {NoItem} :
             LifeOf(KillMonster(KillMonster(state, m), m)) = LifeOf(KillMonster(state, m))]_vars

\* The counter-attack of the turn just fought killed the character.
C20_Witness ==
    /\ reply.tool = "attack"
    /\ reply.text = "=== COMBAT ==="
    /\ state.character.hp = 0
    /\ state.gameOver
    /\ ~state.victory
    /\ \E m \in DOMAIN state.monsters :
          state.monsters[m].isAlive /\ state.monsters[m].room = state.character.room

(***************************************************************************)
(* The combat rules                                                        *)
(***************************************************************************)
MaxOf(a, b) == IF a > b THEN a ELSE b

\* C21: for every combination of dice, strength, dexterity, weapon bonus,
\* armor bonus and monster damage, ExecuteCombatTurn follows the rules: the
\* player hits iff d20 + floor(dex/2) >= 10 and then deals
\* max(1, d6 + floor(str/2) + weaponBonus); a monster that survived hits iff
\* d20 >= 10 + floor(dex/2) + armorBonus and then deals
\* max(1, damage + d6 - 3); an attack is critical iff it hit and its d6 shows
\* 5 or 6; a miss deals 0.
C21_CombatRules ==
    combat.phase = "fought" =>
        LET r == combat.result
            p == combat.player
            m == combat.monster
            playerHits == combat.d20p + (p.dexterity \div 2) >= 10
            playerDamage == MaxOf(1, combat.d6p + (p.strength \div 2) + combat.weaponBonus)
            survived == ~playerHits \/ m.hp - playerDamage > 0
            monsterHits == combat.d20m >= 10 + (p.dexterity \div 2) + combat.armorBonus
            monsterDamage == MaxOf(1, m.damage + combat.d6m - 3)
        IN  /\ r.playerAttack.wasHit <=> playerHits
            /\ r.playerAttack.damage = IF playerHits THEN playerDamage ELSE 0
            /\ r.defenderDamage = r.playerAttack.damage
            /\ r.playerAttack.wasCritical <=> (playerHits /\ combat.d6p \in {5, 6})
            /\ r.monster.hp = IF playerHits THEN MaxOf(0, m.hp - playerDamage) ELSE m.hp
            /\ r.hasEnemyAttack <=> survived
            /\ survived =>
                  /\ r.enemyAttack.wasHit <=> monsterHits
                  /\ r.enemyAttack.damage = IF monsterHits THEN monsterDamage ELSE 0
                  /\ r.attackerDamage = r.enemyAttack.damage
                  /\ r.enemyAttack.wasCritical <=> (monsterHits /\ combat.d6m \in {5, 6})
                  /\ r.player.hp = IF monsterHits THEN MaxOf(0, p.hp - monsterDamage) ELSE p.hp

\* Both sides hit: the player with a critical on a monster that survives, the
\* monster with the lowest roll for its damage.
C21_Witness ==
    /\ combat.phase = "fought"
    /\ combat.result.playerAttack.wasHit
    /\ combat.result.playerAttack.wasCritical
    /\ combat.result.hasEnemyAttack
    /\ combat.result.enemyAttack.wasHit
    /\ ~combat.result.enemyAttack.wasCritical
    /\ combat.d6m = 1
    /\ combat.player.strength # combat.player.dexterity
    /\ combat.weaponBonus > 0
    /\ combat.armorBonus > 0

\* C22: ExecuteCombatTurn says that combat continues exactly when the player
\* and the monster are both alive after the call; when the player's attack
\* brings the monster's hp to 0 or below, the hp is set to 0, the monster is
\* marked dead and the call ends without a counter-attack: the player's hp
\* is unchanged and the result has no enemy attack.
C22_CombatContinues ==
    combat.phase = "fought" =>
        LET r == combat.result
            lethal == /\ r.playerAttack.wasHit
                      /\ combat.monster.hp - r.playerAttack.damage <= 0
        IN  /\ r.continues <=> (r.player.isAlive /\ r.monster.isAlive)
            /\ lethal =>
                  /\ r.monster.hp = 0
                  /\ ~r.monster.isAlive
                  /\ r.defenderDied
                  /\ ~r.continues
                  /\ ~r.hasEnemyAttack
                  /\ r.attackerDamage = 0
                  /\ r.player = combat.player
            /\ ~lethal => (r.monster.isAlive /\ r.hasEnemyAttack)

\* The monster was killed through a blow that took more than it had left,
\* while its own dice would have killed the player.
C22_Witness ==
    /\ combat.phase = "fought"
    /\ ~combat.result.monster.isAlive
    /\ combat.monster.hp < combat.result.playerAttack.damage
    /\ combat.d20m = D20
    /\ combat.d6m = D6
    /\ combat.player.hp <= combat.monster.damage + (D6 - 3)
    /\ combat.result.player.hp = combat.player.hp

\* Two calls of the history were given the same character, monster and bonuses.
SameArguments(a, b) ==
    /\ a.player = b.player
    /\ a.monster = b.monster
    /\ a.weaponBonus = b.weaponBonus
    /\ a.armorBonus = b.armorBonus

EquipTexts == {"You equip the weapon.", "You equip the armor."}

\* The reply of an equip that put the item on.
EquipSucceeded(r) == r.tool = "equip" /\ ~r.requestError /\ r.text \in EquipTexts

\* The items of a type that carry the equipped flag.
EquippedOf(gs, type) ==
    {i \in DOMAIN gs.items : gs.items[i].isEquipped /\ gs.items[i].type = type}

Unequippable(gs, itemID) ==
    \/ itemID \notin DOMAIN gs.items
    \/ ~gs.items[itemID].held
    \/ gs.items[itemID].type \notin {"weapon", "armor"}

\* C25: an equip naming an item that does not exist, that the character
\* does not carry (it lies on a floor) or that is neither a weapon nor armor
\* fails; an equip that fails leaves equippedWeaponId, equippedArmorId and
\* the isEquipped flag of every item as they were.
C25_EquipFailure ==
    /\ [](\A i \in ItemIds \cup {NoItem} :
              Unequippable(state, i) =>
                  /\ ~EquipSucceeded(handleEquip(state, i).reply)
                  /\ handleEquip(state, i).gs = state)
    /\ [][(reply'.tool = "equip" /\ ~EquipSucceeded(reply')) =>
              /\ state'.character.weapon = state.character.weapon
              /\ state'.character.armor = state.character.armor
              /\ DOMAIN state'.items = DOMAIN state.items
              /\ \A i \in DOMAIN state.items :
                    state'.items[i].isEquipped = state.items[i].isEquipped]_vars

\* The equip of a carried potion was refused while a shield is worn and
\* another shield lies on a floor.
C25_Witness ==
    /\ reply.tool = "equip"
    /\ reply.text = "Cannot equip - it's not a weapon or armor."
    /\ state.character.armor # NoItem
    /\ \E i \in DOMAIN state.items : state.items[i].isEquipped
    /\ \E i \in DOMAIN state.items : state.items[i].type = "armor" /\ ~state.items[i].held

(***************************************************************************)
(* The per-turn context                                                    *)
(***************************************************************************)
\* The reply of a move, attack, take, use or equip that did what it was
\* asked to do.
ActionSucceeded(r) ==
    \/ MoveSucceeded(r)
    \/ r.tool = "attack" /\ ~r.requestError /\ r.text = "=== COMBAT ==="
    \/ TakeSucceeded(r)
    \/ UseSucceeded(r)
    \/ EquipSucceeded(r)

\* The events a tool's handler sets.
EventsOf(tool) ==
    IF tool = "move" THEN {"movement/room_enter", "victory/dungeon_escaped"}
    ELSE IF tool = "attack" THEN {"death/player_died", "combat/enemy_defeated",
                                  "combat/attack_hit", "combat/attack_miss"}
    ELSE IF tool = "take" THEN {"discovery/item_found"}
    ELSE IF tool = "use" THEN {"interaction/item_used"}
    ELSE {""}

\* C26: after a move, attack, take, use or equip that succeeded, the turn
\* context the snapshot is built from was reset during that call, so that
\* its last event, its combat result and its inventory delta are the call's
\* own and none is left from an earlier tool call.
C26_TurnContextReset ==
    ActionSucceeded(reply) =>
        /\ turn.resetInCall
        /\ turn.event \in EventsOf(reply.tool)
        /\ turn.combat => reply.tool = "attack"
        /\ turn.added # {} => reply.tool = "take"
        /\ turn.used # {} => reply.tool = "use"
        /\ turn.defeated # {} => reply.tool = "attack"

\* C27: a well-formed move, attack, take, use or equip call that a running
\* game refuses (no exit that way, monsters in the room, an item that is
\* missing, out of reach, not carried or of the wrong type, a monster that
\* is missing, elsewhere or dead) leaves the character, the monsters, the
\* items, the visited set and the flags as they were, and the inventory
\* delta of the turn lists no item as added or used.
C27_FailureLeavesNoTrace ==
    [][(/\ state.initialized
        /\ ~state.gameOver
        /\ reply'.tool \in ActionTools
        /\ ~reply'.requestError
        /\ ~ActionSucceeded(reply')) =>
          /\ state' = state
          /\ turn'.added = {}
          /\ turn'.used = {}]_vars

(***************************************************************************)
(* Requests and replies                                                    *)
(***************************************************************************)
\* A call whose argument is missing or not a string, or a move whose
\* direction is a string that names none of the four directions.
BadArgument(q) ==
    /\ q.tool \in ActionTools
    /\ \/ ~q.isString
       \/ q.tool = "move" /\ q.value \notin DirectionSet

\* C28: a move whose direction is missing, not a string or a string other
\* than north, south, east and west, and an attack, take, use or equip whose
\* id is missing or not a string, is answered by a request error (an error
\* and no tool result, not the text of a game rule) and changes neither the
\* game state nor the turn context.
C28_BadArgumentsAreRequestErrors ==
    [][BadArgument(request') =>
          /\ reply'.requestError
          /\ ~reply'.snapshot
          /\ reply'.text \in {"invalid direction", "invalid target_id", "invalid item_id"}
          /\ state' = state
          /\ turn' = Entering(turn)]_vars

\* C29: while a game is initialized every tool result (every answer that is
\* not a request error) carries a game-state snapshot, the results that
\* reject a call in a finished game and those of failed actions included.
C29_EveryResultHasSnapshot ==
    (state.initialized /\ reply.tool \in Tools /\ ~reply.requestError) => reply.snapshot

(***************************************************************************)
(* Concurrent requests                                                     *)
(***************************************************************************)
\* C30: tool calls that arrive concurrently over the HTTP call endpoint are
\* serialized: of two use calls naming the same potion at most one heals
\* the character, and no attack makes the character take the counter-attack
\* of a monster that is already dead.
C30_CallsAreSerialized ==
    /\ Cardinality({p \in Threads : calls[p].tool = "use" /\ calls[p].healed > 0}) <= 1
    /\ \A p \in Threads : ~calls[p].hitByDead

(***************************************************************************)
(* The population of the dungeon                                           *)
(***************************************************************************)
\* The room flagged as the exit, as a set of coordinates.
ExitRooms == {c \in RoomCoords(state.rooms) : IsExitRoom(state, c)}

\* The ids of the items lying on the floor of one of the rooms.
ItemsIn(rooms) == {i \in DOMAIN state.items : state.items[i].room \in rooms}

\* C31: after new_game the entrance room holds no monster and exactly one
\* item, a healing consumable lying on the floor, and the exit room holds
\* no monster and no item; in no later state of the game is there a
\* monster, alive or dead, in either of the two rooms.
C31_SafeEntranceAndExit ==
    state.initialized =>
        /\ \A m \in DOMAIN state.monsters :
              state.monsters[m].room \notin EntranceRooms \cup ExitRooms
        /\ reply.tool = "new_game" =>
              /\ Cardinality(EntranceRooms) = 1
              /\ Cardinality(ExitRooms) = 1
              /\ Cardinality(ItemsIn(EntranceRooms)) = 1
              /\ \A i \in ItemsIn(EntranceRooms) :
                    /\ state.items[i].type = "consumable"
                    /\ state.items[i].healing > 0
                    /\ ~state.items[i].held
              /\ ItemsIn(ExitRooms) = {}

\* A new game whose dungeon has a monster, and an item beside the potion
\* at the entrance.
C31_Witness ==
    /\ reply.tool = "new_game"
    /\ DOMAIN state.monsters # {}
    /\ Cardinality(DOMAIN state.items) >= 2
    /\ ItemsIn(EntranceRooms) # {}
    /\ ItemsIn(RoomCoords(state.rooms) \ EntranceRooms) # {}

\* C32: every monster PopulateRoom spawns in a room at distance d from the
\* entrance comes from a template whose minimum difficulty is at most d; a
\* room gets at most 2 monsters, and 2 only when d >= 3; every spawned
\* monster is alive, in that room, with hp = maxHp >= 1.
C32_MonstersFitDifficulty ==
    gen.phase = "populated" =>
        LET d == gen.room.x + gen.room.y
        IN  /\ Len(gen.monsters) <= 2
            /\ Len(gen.monsters) = 2 => d >= 3
            /\ \A i \in DOMAIN gen.monsters :
                  /\ \E t \in DOMAIN monsterTemplates :
                        /\ monsterTemplates[t].name = gen.monsters[i].name
                        /\ monsterTemplates[t].minDiff <= d
                  /\ gen.monsters[i].isAlive
                  /\ gen.monsters[i].hp = gen.monsters[i].maxHp
                  /\ gen.monsters[i].hp >= 1
                  /\ gen.monsters[i].room = <<gen.room.x, gen.room.y>>

\* Two monsters were spawned in a room at distance 3, where one template is
\* still too strong to be eligible.
C32_Witness ==
    /\ gen.phase = "populated"
    /\ gen.room.x + gen.room.y = 3
    /\ Len(gen.monsters) = 2
    /\ \E t \in DOMAIN monsterTemplates : monsterTemplates[t].minDiff > 3

\* C33: equipped armor reduces incoming damage: when the monster's attack
\* hits a player whose armor bonus is positive, the damage is lower than the
\* damage the same monster does with the same rolls to the same player with
\* armor bonus 0.
C33_ArmorReducesDamage ==
    (/\ combat.phase = "fought"
     /\ combat.armorBonus > 0
     /\ combat.result.hasEnemyAttack
     /\ combat.result.enemyAttack.wasHit) =>
        LET bare == ExecuteCombatTurn(combat.player, combat.monster,
                                      combat.weaponBonus, 0,
                                      combat.d20p, combat.d6p, combat.d20m, combat.d6m)
        IN  /\ bare.hasEnemyAttack
            /\ bare.enemyAttack.wasHit
            /\ combat.result.enemyAttack.damage < bare.enemyAttack.damage

\* The step puts the character into the exit room: by a move from another
\* room, or by starting a game whose entrance is its exit.
ArrivesAtExit ==
    /\ state'.initialized
    /\ IsExitRoom(state', state'.character.room)
    /\ \/ ~state.initialized
       \/ state'.character.room # state.character.room
       \/ reply'.tool = "new_game"

\* C34: victory can be reached and is reached exactly on arrival at the
\* exit: as long as the game is not over the exit room can be walked to from
\* the character's room along the connections, and a step makes Victory
\* true exactly when it puts the character into the exit room, and then it
\* makes GameOver true as well.
C34_VictoryOnArrival ==
    /\ [](state.initialized /\ ~state.gameOver =>
              ExitRooms \cap ReachFrom({state.character.room}, state.connections) # {})
    /\ [][/\ ArrivesAtExit <=> (state'.victory /\ (~state.victory \/ reply'.tool = "new_game"))
          /\ ArrivesAtExit => (state'.gameOver /\ state'.victory)
          /\ (state'.initialized /\ IsExitRoom(state', state'.character.room))
                 => state'.victory]_vars

\* A sequence of attacks and moves has ended in the exit room: a monster
\* lies defeated and the last move has won the game.
C34_Witness ==
    /\ reply.tool = "move"
    /\ state.victory
    /\ state.gameOver
    /\ IsExitRoom(state, state.character.room)
    /\ \E m \in DOMAIN state.monsters : ~state.monsters[m].isAlive

(***************************************************************************)
(* The map grid of the snapshot                                            *)
(***************************************************************************)
\* The cells of the map grid.
MapCells == (0 .. (gridSize - 1)) \X (0 .. (gridSize - 1))

\* The visited rooms next to c on the grid from which a connection leads to c.
VisitedDoorsTo(c) ==
    {cn.room : cn \in {k \in state.connections :
                          /\ k.connected = c
                          /\ k.room \in state.visited
                          /\ k.room \in {<<c[1] - 1, c[2]>>, <<c[1] + 1, c[2]>>,
                                         <<c[1], c[2] - 1>>, <<c[1], c[2] + 1>>}}}

\* C35: in the map grid of a snapshot a room that is neither the current room
\* nor visited has status "adjacent" exactly when one of its four grid
\* neighbours is a visited room with a connection leading to it; the current
\* room is "current", any other visited room is "exit" when it is the exit
\* and "visited" otherwise, and every remaining cell is "unknown".
C35_MapCellStatus ==
    state.initialized =>
        \A c \in MapCells :
            LET status == MapCellStatus(state, c)
                isRoom == c \in RoomCoords(state.rooms)
                current == c = state.character.room
                visited == c \in state.visited
            IN  /\ (status = "current") = (isRoom /\ current)
                /\ (status = "exit") = (isRoom /\ ~current /\ visited /\ c \in ExitRooms)
                /\ (status = "visited") = (isRoom /\ ~current /\ visited /\ c \notin ExitRooms)
                /\ (isRoom /\ ~current /\ ~visited) =>
                       /\ (status = "adjacent") = (VisitedDoorsTo(c) # {})
                       /\ status \in {"adjacent", "unknown"}
                /\ ~isRoom => status = "unknown"

\* An unvisited room lies next to a visited room without a door between the
\* two, while another unvisited room is shown as adjacent.
C35_Witness ==
    /\ state.initialized
    /\ \E c \in RoomCoords(state.rooms) \ state.visited :
          /\ MapCellStatus(state, c) = "unknown"
          /\ \E v \in state.visited : getNeighbor(v, "north") = c \/ getNeighbor(v, "east") = c
                                        \/ getNeighbor(c, "north") = v \/ getNeighbor(c, "east") = v
    /\ \E c \in RoomCoords(state.rooms) : MapCellStatus(state, c) = "adjacent"

\* C36: the snapshot's isFirstVisit is true only when the call that produced
\* the snapshot moved the character into a room that was not visited before
\* that call; it is false after moving back into a visited room.
C36_FirstVisitOnlyOnNewRoom ==
    [][(reply'.snapshot /\ isFirstVisit(turn')) =>
          /\ reply'.tool = "move"
          /\ state'.character.room # state.character.room
          /\ state'.character.room \notin state.visited]_vars

(***************************************************************************)
(* Invariants of the game state between tool calls                         *)
(***************************************************************************)
\* C37: between the tool calls of an initialized game GameOver is true
\* exactly when Victory is true or the character is dead; Victory implies
\* that the character is alive and stands in the exit room; Victory and
\* death never hold together.
C37_GameOverMeansWonOrDead ==
    state.initialized =>
        /\ state.gameOver <=> (state.victory \/ ~state.character.isAlive)
        /\ state.victory =>
              /\ state.character.isAlive
              /\ state.character.room \in ExitRooms
        /\ ~(state.victory /\ ~state.character.isAlive)

\* The attack that has just been answered ended with the character's death:
\* the game is over and not won.
C37_Witness ==
    /\ state.initialized
    /\ reply.tool = "attack"
    /\ ~state.character.isAlive
    /\ state.gameOver
    /\ ~state.victory
    /\ state.character.room \notin ExitRooms

\* C38: in a dungeon of two or more rooms a side the exit room is in the
\* visited set exactly when Victory is true, and then the character stands
\* in it; so no cell of the map grid ever has the status "exit".
C38_ExitVisitedMeansVictory ==
    state.initialized =>
        /\ (ExitRooms \cap state.visited # {}) <=> state.victory
        /\ state.victory => state.character.room \in ExitRooms
        /\ \A c \in MapCells : MapCellStatus(state, c) # "exit"

\* The map is asked for in a won game: the exit room is visited and its cell
\* is the current one.
C38_Witness ==
    /\ reply.tool = "map"
    /\ reply.snapshot
    /\ state.victory
    /\ \E c \in ExitRooms :
          /\ c \in state.visited
          /\ MapCellStatus(state, c) = "current"

\* The connections that lead from a visited room to a visited room.
VisitedDoors ==
    {cn \in state.connections : cn.room \in state.visited /\ cn.connected \in state.visited}

\* C39: the character's current room is an existing room and is in the
\* visited set; every visited room can be reached from the entrance along
\* connections through visited rooms only; and the visited set only grows
\* from one call to the next, new_game apart.
C39_VisitedIsAWalkedRegion ==
    /\ [](state.initialized =>
              /\ state.character.room \in RoomCoords(state.rooms)
              /\ state.character.room \in state.visited
              /\ state.visited \subseteq RoomCoords(state.rooms)
              /\ state.visited = ReachFrom(EntranceRooms, VisitedDoors))
    /\ [][reply'.tool # "new_game" => state.visited \subseteq state'.visited]_vars

\* The character has walked away from the entrance and come back: the
\* visited set holds more than the room the character stands in.
C39_Witness ==
    /\ state.initialized
    /\ reply.tool = "move"
    /\ state.character.room \in EntranceRooms
    /\ Cardinality(state.visited) >= 3

\* The item the character's equippedWeaponId ("weapon") or equippedArmorId
\* ("armor") names, NoItem when it is not set.
EquipmentRef(gs, slot) ==
    IF slot = "weapon" THEN gs.character.weapon ELSE gs.character.armor

\* C40: equipment references never dangle: an equippedWeaponId or
\* equippedArmorId that is set names an item that is in the item mapping, has
\* the type of the slot, is held by the character and carries isEquipped;
\* and no take, use or equip call removes an equipped item from the mapping
\* or from the character's hands.
C40_EquipmentNeverDangles ==
    /\ [](state.initialized =>
              \A slot \in {"weapon", "armor"} :
                  LET ref == EquipmentRef(state, slot)
                  IN  ref # NoItem =>
                          /\ ref \in DOMAIN state.items
                          /\ state.items[ref].type = slot
                          /\ state.items[ref].held
                          /\ state.items[ref].room = NoRoom
                          /\ state.items[ref].isEquipped)
    /\ [][(state.initialized /\ reply'.tool \in {"take", "use", "equip"}) =>
              \A slot \in {"weapon", "armor"} :
                  LET ref == EquipmentRef(state, slot)
                  IN  ref # NoItem =>
                          /\ ref \in DOMAIN state'.items
                          /\ state'.items[ref].held
                          /\ state'.items[ref].room = NoRoom
                          /\ state'.items[ref].name = state.items[ref].name]_vars

\* The potion has been drunk by a character with a weapon equipped: an item
\* has left the mapping and the equipped one is still there.
C40_Witness ==
    /\ UseSucceeded(reply)
    /\ EquipmentRef(state, "weapon") # NoItem
    /\ state.items[EquipmentRef(state, "weapon")].isEquipped
    /\ \E i \in 1 .. 3 : i \notin DOMAIN state.items
====
